---- MODULE Spec2Model ----
(***************************************************************************)
(* Gateway control plane of the reputation-monitoring backend:             *)
(*   src/backend/services/gateway/api_gateway.py                           *)
(*       RateLimiter, APIKeyManager, RequestRouter, APIGateway             *)
(*   src/backend/services/caching/multi_layer_cache.py                     *)
(*       InMemoryCache (L1), RedisCache (L2), MultiLayerCache              *)
(*                                                                         *)
(* Time is the wall clock (time.time(), datetime.utcnow()) in whole        *)
(* seconds.  Every method of these classes is a coroutine that awaits only *)
(* other coroutines of the same classes, none of which suspends, so under  *)
(* asyncio each call runs to completion before another task is scheduled:  *)
(* one call is one action, and concurrent callers are interleavings of     *)
(* whole calls.                                                            *)
(***************************************************************************)
EXTENDS Integers, Sequences, FiniteSets, TLC

VARIABLES
    now,              \* wall clock, seconds
    ticks,            \* number of clock advances so far (bounds the run)
    request_history,  \* RateLimiter.request_history : client_id -> list of timestamps
    token_buckets,    \* RateLimiter.token_buckets   : client_id -> {tokens, last_refill}
    last_check,       \* what the most recent check_rate_limit call returned, per client
    admitted,         \* history: timestamps of the admitted checks of the last hour, per client
    depleted,         \* history: the times of the last hour at which a check left a bucket below one token
    tiers_used,       \* history: the tiers each client has been checked under
    api_keys,         \* APIKeyManager.api_keys : key -> key data
    last_validate,    \* the most recent validate_api_key call: its argument and what it returned
    returned,         \* history: key -> the number of validate_api_key calls that returned its key data
    routes,           \* RequestRouter.routes : pattern -> route config, in insertion order
    last_response,    \* what the most recent process_request call answered
    l1_cache,         \* InMemoryCache.cache : key -> {value, expires_at, created_at}
    l1_access_times,  \* InMemoryCache.access_times : key -> time, in insertion order
    l2_redis,         \* RedisCache.redis: the dict that stands in for Redis, or what the Redis server holds : key -> {value, expires_at}
    stats,            \* MultiLayerCache.stats
    last_get,         \* the most recent MultiLayerCache.get or InMemoryCache.get: its key and what it returned
    written,          \* history: key -> the latest MultiLayerCache.set of it, dropped by delete, flagged by invalidate_namespace
    last_set,         \* history: the most recent direct InMemoryCache.set: its key and the key it evicted
    derived,          \* the most recent _generate_cache_key call: its arguments and the key it returned
    last_match,       \* the most recent direct match_route call: its arguments and what it returned
    registrations,    \* history: the add_route calls so far, in order, as the entries they asked for
    last_call,        \* the most recent MultiLayerCache call on a real Redis client or wrapper call: how it ended
    attempts,         \* MFAAttemptTracker.attempts
    last_record,      \* the most recent record_attempt call: its arguments, its time and what it returned
    failures,         \* history: per user, the attempts recorded and the failed ones in a row, with the time of the latest
    tasks,            \* where each coroutine that calls the cache on a real Redis client is
    flight            \* history: the calls issued so far, whether a delete has completed, how the latest get ended

limiterVars == <<request_history, token_buckets, last_check, admitted, depleted, tiers_used>>
keyVars == <<api_keys, last_validate, returned>>
gatewayVars == <<routes, last_response>>
cacheVars == <<l1_cache, l1_access_times, l2_redis, stats, last_get, written, last_set>>
mfaVars == <<attempts, last_record, failures>>
flightVars == <<tasks, flight>>
auxVars == <<derived, last_match, registrations, last_call, mfaVars, flightVars>>
vars == <<now, ticks, limiterVars, keyVars, gatewayVars, cacheVars, auxVars>>

----------------------------------------------------------------------------
(* Bounds of the model *)

\* clock advances in one run
MaxTicks == 4

\* RATE_LIMIT_CONFIGS scaled down: the source's limits are 10..100000
FreePerMinute == 2
FreePerHour == 3
BasicPerMinute == 3
BasicPerHour == 4
ProPerHour == 2
ProBurst == 2
EntPerHour == 3
EntBurst == 3

(* Program constants *)
HourWindow == 3600
MinuteWindow == 60

\* validations of one key in one run
MaxUsage == 3
\* clock advances in one run of the key manager
MaxKeyTicks == 1

\* clock advances in one run of a caller that changes tier
MaxMixedTicks == 1

\* add_route calls in one run, after the default routes
MaxAddRoutes == 2

\* requests_per_hour of the fixed-window configuration
FixedPerHour == 2

\* InMemoryCache.max_size, scaled down from 10000
L1MaxSize == 2
\* MultiLayerCache.get calls in one run
MaxGets == 2
\* clock advances in one run of the caches
MaxCacheTicks == 1

\* user ids, and the random parts secrets.token_urlsafe can return
Users == {1}
Randoms == {"r1", "r2"}

\* the tiers keys are issued for: one of each strategy, and unlimited
IssuedTiers == {"free", "professional", "unlimited"}

\* f"user_{user_id}"
ClientId(user_id) == <<"user", user_id>>

Clients == {ClientId(u) : u \in Users}


\* the steps the clock advances by: around the minute and the hour horizon
LimiterDeltas == {1, MinuteWindow - 1, MinuteWindow, HourWindow - MinuteWindow}

----------------------------------------------------------------------------
(* dict helpers *)

Put(d, k, v) == [x \in (DOMAIN d) \cup {k} |-> IF x = k THEN v ELSE d[x]]

Get(d, k, default) == IF k \in DOMAIN d THEN d[k] ELSE default

EmptyDict == [x \in {} |-> 0]

----------------------------------------------------------------------------
(* RateLimitTier, RateLimitStrategy, RATE_LIMIT_CONFIGS *)

Tiers == {"free", "basic", "professional", "enterprise", "unlimited"}

RATE_LIMIT_CONFIGS ==
    [t \in Tiers \ {"unlimited"} |->
        CASE t = "free" ->
                [requests_per_hour |-> FreePerHour, requests_per_minute |-> FreePerMinute,
                 burst_size |-> 2 * FreePerMinute, strategy |-> "sliding_window"]
          [] t = "basic" ->
                [requests_per_hour |-> BasicPerHour, requests_per_minute |-> BasicPerMinute,
                 burst_size |-> 2 * BasicPerMinute, strategy |-> "sliding_window"]
          [] t = "professional" ->
                [requests_per_hour |-> ProPerHour, requests_per_minute |-> ProBurst \div 2,
                 burst_size |-> ProBurst, strategy |-> "token_bucket"]
          [] t = "enterprise" ->
                [requests_per_hour |-> EntPerHour, requests_per_minute |-> EntBurst \div 2,
                 burst_size |-> EntBurst, strategy |-> "token_bucket"]]

----------------------------------------------------------------------------
(* RateLimiter._check_sliding_window *)

\* the list comprehension "ts > hour_ago"
PruneHour(h, t) == SelectSeq(h, LAMBDA ts : ts > t - HourWindow)

RequestsLastMinute_NoWindow(h, t) == Len(SelectSeq(PruneHour(h, t), LAMBDA ts : ts > t))

\* len of the list comprehension "ts > minute_ago" over the pruned history
RequestsLastMinute(h, t) == Len(SelectSeq(PruneHour(h, t), LAMBDA ts : ts > t - MinuteWindow))

RequestsLastHour(h, t) == Len(PruneHour(h, t))

MinuteLimitHit_OffByOne(h, t, config) == RequestsLastMinute(h, t) > config.requests_per_minute

MinuteLimitHit(h, t, config) == RequestsLastMinute(h, t) >= config.requests_per_minute

HourLimitHit(h, t, config) == RequestsLastHour(h, t) >= config.requests_per_hour

\* two checks of one instant both write the list they built from the same state
SlidingHistory_LostAppend(h, t, config) ==
    IF MinuteLimitHit(h, t, config) \/ HourLimitHit(h, t, config)
    THEN PruneHour(h, t)
    ELSE IF Len(PruneHour(h, t)) > 0 /\ PruneHour(h, t)[Len(PruneHour(h, t))] = t
    THEN PruneHour(h, t)
    ELSE Append(PruneHour(h, t), t)

\* the history the call leaves behind: pruned, and with now appended when admitted
SlidingHistory(h, t, config) ==
    IF MinuteLimitHit(h, t, config) \/ HourLimitHit(h, t, config)
    THEN PruneHour(h, t)
    ELSE Append(PruneHour(h, t), t)

\* the (is_allowed, limit_info) the call returns; minute_ago = now - 60 and
\* hour_ago = now - 3600, so now - minute_ago = 60 and now - hour_ago = 3600
SlidingResult(h, t, config) ==
    IF MinuteLimitHit(h, t, config)
    THEN [allowed |-> FALSE, reason |-> "Per-minute limit exceeded",
          limit |-> config.requests_per_minute, current |-> RequestsLastMinute(h, t),
          reset_in_seconds |-> MinuteWindow - (t - (t - MinuteWindow))]
    ELSE IF HourLimitHit(h, t, config)
    THEN [allowed |-> FALSE, reason |-> "Per-hour limit exceeded",
          limit |-> config.requests_per_hour, current |-> RequestsLastHour(h, t),
          reset_in_seconds |-> HourWindow - (t - (t - HourWindow))]
    ELSE [allowed |-> TRUE,
          remaining_hour |-> config.requests_per_hour - RequestsLastHour(h, t) - 1,
          remaining_minute |-> config.requests_per_minute - RequestsLastMinute(h, t) - 1]

----------------------------------------------------------------------------
(* RateLimiter._check_token_bucket.  tokens is held in units of 1/3600     *)
(* token, so that refill_rate = requests_per_hour / 3600 tokens per second *)
(* is requests_per_hour units per second and the arithmetic is exact.      *)

TokenUnit == HourWindow

Min(a, b) == IF a <= b THEN a ELSE b

\* a limiter whose new buckets hold nothing
BucketOf_StartsEmpty(buckets, client_id, t, config) ==
    IF client_id \in DOMAIN buckets
    THEN buckets[client_id]
    ELSE [tokens |-> 0, last_refill |-> t]

\* the bucket the call starts from: a new one holds burst_size tokens
BucketOf(buckets, client_id, t, config) ==
    IF client_id \in DOMAIN buckets
    THEN buckets[client_id]
    ELSE [tokens |-> config.burst_size * TokenUnit, last_refill |-> t]

Refilled_NoCap(bucket, t, config) ==
    bucket.tokens + (t - bucket.last_refill) * config.requests_per_hour

\* tokens after the refill: min(tokens + elapsed * refill_rate, burst_size)
Refilled(bucket, t, config) ==
    Min(bucket.tokens + (t - bucket.last_refill) * config.requests_per_hour,
        config.burst_size * TokenUnit)

\* a bucket that gives a token away whether it holds one or not
BucketAfter_TakesAlways(bucket, t, config) ==
    [tokens |-> Refilled(bucket, t, config) - TokenUnit, last_refill |-> t]

BucketAfter(bucket, t, config) ==
    [tokens |-> IF Refilled(bucket, t, config) >= TokenUnit
                THEN Refilled(bucket, t, config) - TokenUnit
                ELSE Refilled(bucket, t, config),
     last_refill |-> t]

\* int(wait_time) + 1 with wait_time = (1 - tokens) / refill_rate
BucketResult(bucket, t, config) ==
    IF Refilled(bucket, t, config) >= TokenUnit
    THEN [allowed |-> TRUE,
          remaining_tokens |-> (Refilled(bucket, t, config) - TokenUnit) \div TokenUnit]
    ELSE [allowed |-> FALSE, reason |-> "Token bucket empty",
          retry_after_seconds |->
              ((TokenUnit - Refilled(bucket, t, config)) \div config.requests_per_hour) + 1]

----------------------------------------------------------------------------
(* RateLimiter.check_rate_limit: the new limiter state and the result *)

Strategy(tier) == IF tier = "unlimited" THEN "none" ELSE RATE_LIMIT_CONFIGS[tier].strategy

\* a limiter that records the time of every check, whatever the tier
HistoryAfter_RecordsAll(hist, client_id, tier, t) ==
    IF Strategy(tier) = "sliding_window"
    THEN Put(hist, client_id,
             SlidingHistory(Get(hist, client_id, <<>>), t, RATE_LIMIT_CONFIGS[tier]))
    ELSE Put(hist, client_id, Append(Get(hist, client_id, <<>>), t))

HistoryAfter(hist, client_id, tier, t) ==
    IF Strategy(tier) = "sliding_window"
    THEN Put(hist, client_id,
             SlidingHistory(Get(hist, client_id, <<>>), t, RATE_LIMIT_CONFIGS[tier]))
    ELSE hist

BucketsAfter(buckets, client_id, tier, t) ==
    IF Strategy(tier) = "token_bucket"
    THEN Put(buckets, client_id,
             BucketAfter(BucketOf(buckets, client_id, t, RATE_LIMIT_CONFIGS[tier]),
                         t, RATE_LIMIT_CONFIGS[tier]))
    ELSE buckets

CheckResult(hist, buckets, client_id, tier, t) ==
    CASE Strategy(tier) = "none" -> [allowed |-> TRUE, tier |-> "unlimited"]
      [] Strategy(tier) = "sliding_window" ->
            SlidingResult(Get(hist, client_id, <<>>), t, RATE_LIMIT_CONFIGS[tier])
      [] Strategy(tier) = "token_bucket" ->
            BucketResult(BucketOf(buckets, client_id, t, RATE_LIMIT_CONFIGS[tier]),
                         t, RATE_LIMIT_CONFIGS[tier])

\* history variable of the model: the checks a limited tier admitted in the last hour
LogAfter(log, client_id, tier, allowed, t) ==
    [c \in Clients |->
        LET kept == SelectSeq(log[c], LAMBDA ts : ts >= t - HourWindow)
        IN  IF c = client_id /\ allowed /\ tier # "unlimited" THEN Append(kept, t) ELSE kept]

\* history variable of the model: when a token-bucket check left less than one token
DepletedAfter(dep, buckets, client_id, tier, t) ==
    [c \in Clients |->
        LET kept == {d \in dep[c] : d >= t - HourWindow}
        IN  IF c = client_id /\ Strategy(tier) = "token_bucket"
               /\ BucketsAfter(buckets, client_id, tier, t)[client_id].tokens < TokenUnit
            THEN kept \cup {t}
            ELSE kept]

NoCheck == [tier |-> "none"]

\* one call of check_rate_limit(client_id, tier)
CheckRateLimit(client_id, tier) ==
    LET res == CheckResult(request_history, token_buckets, client_id, tier, now)
    IN  /\ request_history' = HistoryAfter(request_history, client_id, tier, now)
        /\ token_buckets' = BucketsAfter(token_buckets, client_id, tier, now)
        /\ last_check' = [last_check EXCEPT ![client_id] =
                             [tier |-> tier, at |-> now, info |-> res]]
        /\ admitted' = LogAfter(admitted, client_id, tier, res.allowed, now)
        /\ depleted' = DepletedAfter(depleted, token_buckets, client_id, tier, now)
        /\ tiers_used' = [tiers_used EXCEPT ![client_id] = @ \cup {tier}]

\* a caller keeps the tier it was first checked under
Check == \E c \in Clients, tier \in Tiers :
            /\ tiers_used[c] \subseteq {tier}
            /\ CheckRateLimit(c, tier)
            /\ UNCHANGED <<now, ticks, keyVars, gatewayVars, cacheVars, auxVars>>

LimiterTick == \E d \in LimiterDeltas :
                  /\ ticks < MaxTicks
                  /\ now' = now + d
                  /\ ticks' = ticks + 1
                  /\ UNCHANGED <<limiterVars, keyVars, gatewayVars, cacheVars, auxVars>>

\* a caller checked under any tier at any time: the keys of one user can carry
\* different tiers, and the limiter state is kept per user
MixedTiers == {"free", "professional", "unlimited"}

MixedCheck == \E c \in Clients, tier \in MixedTiers :
                /\ CheckRateLimit(c, tier)
                /\ UNCHANGED <<now, ticks, keyVars, gatewayVars, cacheVars, auxVars>>

MixedDeltas == {1, MinuteWindow}

MixedTick == \E d \in MixedDeltas :
                /\ ticks < MaxMixedTicks
                /\ now' = now + d
                /\ ticks' = ticks + 1
                /\ UNCHANGED <<limiterVars, keyVars, gatewayVars, cacheVars, auxVars>>

----------------------------------------------------------------------------
(* Fixed window: _check_fixed_window, which check_rate_limit calls for a     *)
(* configuration whose strategy is neither sliding window nor token bucket. *)
(* No entry of RATE_LIMIT_CONFIGS has that strategy, so the configuration   *)
(* is the argument of a direct call.                                        *)

FixedConfig == [requests_per_hour |-> FixedPerHour, strategy |-> "fixed_window"]

\* int(t / 3600)
WindowId(t) == t \div HourWindow

\* a timestamp that counts as one of the last hour
InCurrentWindow_LastHour(ts, t) == ts > t - HourWindow

\* int(ts / 3600) == current_window
InCurrentWindow(ts, t) == WindowId(ts) = WindowId(t)

\* the caller's timestamps filtered to the current window
FixedKept(h, t) == SelectSeq(h, LAMBDA ts : InCurrentWindow(ts, t))

\* a limit that lets one request too many into a window
FixedLimitHit_OffByOne(h, t, config) == Len(FixedKept(h, t)) > config.requests_per_hour

FixedLimitHit(h, t, config) == Len(FixedKept(h, t)) >= config.requests_per_hour

\* a fixed window that records the time of a rejected check as well
FixedHistory_AppendsAlways(h, t, config) == Append(FixedKept(h, t), t)

FixedHistory(h, t, config) ==
    IF FixedLimitHit(h, t, config) THEN FixedKept(h, t) ELSE Append(FixedKept(h, t), t)

FixedResult(h, t, config) ==
    IF FixedLimitHit(h, t, config)
    THEN [allowed |-> FALSE, reason |-> "Fixed window limit exceeded",
          limit |-> config.requests_per_hour,
          reset_at |-> (WindowId(t) + 1) * HourWindow]
    ELSE [allowed |-> TRUE,
          remaining |-> config.requests_per_hour - Len(FixedKept(h, t)) - 1]

\* one call of _check_fixed_window(client_id, config)
CheckFixedWindow(client_id, config) ==
    LET h == Get(request_history, client_id, <<>>)
        res == FixedResult(h, now, config)
    IN  /\ request_history' = Put(request_history, client_id, FixedHistory(h, now, config))
        /\ last_check' = [last_check EXCEPT ![client_id] =
                             [tier |-> config.strategy, at |-> now, info |-> res]]
        /\ admitted' = LogAfter(admitted, client_id, config.strategy, res.allowed, now)
        /\ UNCHANGED <<token_buckets, depleted, tiers_used>>

FixedCheck == \E c \in Clients :
                /\ CheckFixedWindow(c, FixedConfig)
                /\ UNCHANGED <<now, ticks, keyVars, gatewayVars, cacheVars, auxVars>>

\* time.time() moves on: within a window, and up to the second before a boundary
FixedDeltas == {1, HourWindow - 1}

FixedTick == \E d \in FixedDeltas :
                /\ ticks < MaxTicks
                /\ now' = now + d
                /\ ticks' = ticks + 1
                /\ UNCHANGED <<limiterVars, keyVars, gatewayVars, cacheVars, auxVars>>

----------------------------------------------------------------------------
(* APIKeyManager *)

\* Python's None
None == [none |-> TRUE]

\* the None of a field that otherwise holds a time
NoTime == 0 - 1

\* no X-API-Key and no Authorization header: the empty string
NoKey == <<>>

\* f"sk_{'test' if tier == RateLimitTier.FREE else 'live'}_{secrets.token_urlsafe(32)}"
KeyFor(tier, random) == <<IF tier = "free" THEN "sk_test" ELSE "sk_live", random>>

\* every key string a caller can present
AllKeys == {<<env, r>> : env \in {"sk_test", "sk_live"}, r \in Randoms}

\* the state generate_api_key leaves behind
ApiKeysAfterGenerate(keys, key, user_id, tier, name, t) ==
    Put(keys, key, [user_id |-> user_id, tier |-> tier, name |-> name, created_at |-> t,
                    last_used |-> NoTime, is_active |-> TRUE, usage_count |-> 0])

Validates_IgnoresActive(keys, key) == key \in DOMAIN keys

\* validate_api_key finds the key and finds it active
Validates(keys, key) == key \in DOMAIN keys /\ keys[key].is_active

\* a validate_api_key that counts the use of every key it finds, active or not
ApiKeysAfterValidate_CountsRevoked(keys, key, t) ==
    IF key \in DOMAIN keys
    THEN [keys EXCEPT ![key].last_used = t, ![key].usage_count = @ + 1]
    ELSE keys

\* the key table validate_api_key leaves behind
ApiKeysAfterValidate(keys, key, t) ==
    IF Validates(keys, key)
    THEN [keys EXCEPT ![key].last_used = t, ![key].usage_count = @ + 1]
    ELSE keys

\* what validate_api_key returns: the updated key data, or None
ValidateResult(keys, key, t) ==
    IF Validates(keys, key) THEN ApiKeysAfterValidate(keys, key, t)[key] ELSE None

\* history: one more call returned the key data of key, if the call validates it
ReturnedAfter(ret, keys, key) ==
    IF Validates(keys, key) THEN [ret EXCEPT ![key] = @ + 1] ELSE ret

\* a revoke that removes the record
ApiKeysAfterRevoke_Removes(keys, key) == [k \in (DOMAIN keys) \ {key} |-> keys[k]]

\* the key table revoke_api_key leaves behind
ApiKeysAfterRevoke(keys, key) ==
    IF key \in DOMAIN keys THEN [keys EXCEPT ![key].is_active = FALSE] ELSE keys

\* generate_api_key(user_id, tier, name).  token_urlsafe(32) draws 256 random
\* bits: the key is taken to differ from every key generated before.
GenerateApiKey(user_id, tier, random) ==
    /\ \A k \in DOMAIN api_keys : k[2] # random
    /\ api_keys' = ApiKeysAfterGenerate(api_keys, KeyFor(tier, random), user_id, tier, None, now)
    /\ UNCHANGED <<last_validate, returned>>

\* validate_api_key(api_key)
ValidateApiKey(key) ==
    /\ Validates(api_keys, key) => api_keys[key].usage_count < MaxUsage
    /\ api_keys' = ApiKeysAfterValidate(api_keys, key, now)
    /\ last_validate' = [api_key |-> key, result |-> ValidateResult(api_keys, key, now)]
    /\ returned' = ReturnedAfter(returned, api_keys, key)

\* revoke_api_key(api_key)
RevokeApiKey(key) ==
    /\ api_keys' = ApiKeysAfterRevoke(api_keys, key)
    /\ UNCHANGED <<last_validate, returned>>

Generate == \E u \in Users, tier \in IssuedTiers, r \in Randoms :
                /\ GenerateApiKey(u, tier, r)
                /\ UNCHANGED <<now, ticks, limiterVars, gatewayVars, cacheVars, auxVars>>

Validate == \E k \in AllKeys :
                /\ ValidateApiKey(k)
                /\ UNCHANGED <<now, ticks, limiterVars, gatewayVars, cacheVars, auxVars>>

Revoke == \E k \in AllKeys :
                /\ RevokeApiKey(k)
                /\ UNCHANGED <<now, ticks, limiterVars, gatewayVars, cacheVars, auxVars>>

\* datetime.utcnow() moves on
KeyDeltas == {1}

KeyTick == \E d \in KeyDeltas :
              /\ ticks < MaxKeyTicks
              /\ now' = now + d
              /\ ticks' = ticks + 1
              /\ UNCHANGED <<limiterVars, keyVars, gatewayVars, cacheVars, auxVars>>

----------------------------------------------------------------------------
(* RequestRouter.  Strings that are searched are sequences of characters. *)

Path_api_v1 == <<"/", "a", "p", "i", "/", "v", "1", "/">>
Path_entities == Path_api_v1 \o <<"e", "n", "t", "i", "t", "i", "e", "s">>
Path_mentions == Path_api_v1 \o <<"m", "e", "n", "t", "i", "o", "n", "s">>
Path_analytics == Path_api_v1 \o <<"a", "n", "a", "l", "y", "t", "i", "c", "s">>

\* str.startswith
StartsWith(str, prefix) ==
    Len(prefix) <= Len(str) /\ SubSeq(str, 1, Len(prefix)) = prefix

\* the routes _setup_default_routes adds, in order
DefaultRoutes ==
    << [pattern |-> Path_entities,
        config |-> [backend_url |-> "http://backend:8000/api/v1/entities",
                    methods |-> {"GET", "POST", "PUT", "DELETE"},
                    rate_limit_override |-> "none"]],
       [pattern |-> Path_mentions,
        config |-> [backend_url |-> "http://backend:8000/api/v1/mentions",
                    methods |-> {"GET", "POST"},
                    rate_limit_override |-> "none"]],
       [pattern |-> Path_analytics,
        config |-> [backend_url |-> "http://backend:8000/api/v1/analytics",
                    methods |-> {"GET"},
                    rate_limit_override |-> "professional"]] >>

\* "methods or [...]": no list, or an empty one, stands for the four methods
MethodsOr(methods) == IF methods = {} THEN {"GET", "POST", "PUT", "DELETE"} ELSE methods

\* the entry add_route writes
RouteEntry(pattern, backend_url, methods, rate_limit_override) ==
    [pattern |-> pattern,
     config |-> [backend_url |-> backend_url, methods |-> MethodsOr(methods),
                 rate_limit_override |-> rate_limit_override]]

RoutePatterns(rs) == {rs[i].pattern : i \in 1..Len(rs)}

\* self.routes[pattern] = {...}: a pattern that is a key of the dict keeps its
\* place and gets the new config, a new pattern goes to the end
RoutesAfterAdd(rs, entry) ==
    IF entry.pattern \in RoutePatterns(rs)
    THEN [i \in 1..Len(rs) |-> IF rs[i].pattern = entry.pattern THEN entry ELSE rs[i]]
    ELSE Append(rs, entry)

\* the positions of the routes that match, in dict order
Matching(rs, path, method) ==
    {i \in 1..Len(rs) : StartsWith(path, rs[i].pattern) /\ method \in rs[i].config.methods}

\* the config of the last route that matches, or None
MatchRoute_LastMatch(rs, path, method) ==
    IF Matching(rs, path, method) = {}
    THEN None
    ELSE rs[CHOOSE i \in Matching(rs, path, method) :
                \A j \in Matching(rs, path, method) : i >= j].config

\* match_route: the config of the first route that matches, or None
MatchRoute(rs, path, method) ==
    IF Matching(rs, path, method) = {}
    THEN None
    ELSE rs[CHOOSE i \in Matching(rs, path, method) :
                \A j \in Matching(rs, path, method) : i <= j].config

\* add_route(pattern, backend_url, methods, rate_limit_override)
AddRoute(pattern, backend_url, methods, rate_limit_override) ==
    LET entry == RouteEntry(pattern, backend_url, methods, rate_limit_override)
    IN  /\ Len(registrations) < Len(DefaultRoutes) + MaxAddRoutes
        /\ routes' = RoutesAfterAdd(routes, entry)
        /\ registrations' = Append(registrations, entry)
        /\ UNCHANGED <<last_response, last_match, derived, last_call, mfaVars, flightVars>>

\* the arguments of the add_route and match_route calls
AddPatterns == {Path_api_v1, Path_entities}
AddBackends == {"http://other:9000"}
AddMethods == {{}, {"GET"}, {"DELETE"}}
MatchPaths == {Path_entities \o <<"/", "7">>, Path_analytics, <<"/", "x">>}
MatchMethods == {"GET", "DELETE"}

AddRouteCall ==
    \E pattern \in AddPatterns, backend_url \in AddBackends, methods \in AddMethods :
        /\ AddRoute(pattern, backend_url, methods, "none")
        /\ UNCHANGED <<now, ticks, limiterVars, keyVars, cacheVars>>

\* match_route(path, method)
MatchCall ==
    \E path \in MatchPaths, method \in MatchMethods :
        /\ last_match' = [path |-> path, method |-> method,
                          result |-> MatchRoute(routes, path, method)]
        /\ UNCHANGED <<now, ticks, limiterVars, keyVars, gatewayVars, cacheVars,
                       derived, registrations, last_call, mfaVars, flightVars>>

----------------------------------------------------------------------------
(* APIGateway.process_request *)

RequestPaths == {Path_entities \o <<"/", "7">>, Path_analytics}
RequestMethods == {"GET", "DELETE"}

\* the X-API-Key header, else the Authorization header without "Bearer "
RequestHeaders ==
    {[x_api_key |-> k, authorization |-> NoKey] : k \in AllKeys \cup {NoKey}}
        \cup {[x_api_key |-> NoKey, authorization |-> k] : k \in {KeyFor("free", r) : r \in Randoms}}

ExtractApiKey(headers) ==
    IF headers.x_api_key # NoKey THEN headers.x_api_key ELSE headers.authorization

Unauthorized(detail) == [status |-> 401, detail |-> detail]

TooManyRequests(limit_info) ==
    [status |-> 429,
     detail |-> Get(limit_info, "reason", "Rate limit exceeded"),
     headers |-> [X_RateLimit_Limit |-> Get(limit_info, "limit", 0),
                  X_RateLimit_Remaining |-> 0,
                  X_RateLimit_Reset |-> Get(limit_info, "reset_in_seconds", 0),
                  Retry_After |-> Get(limit_info, "retry_after_seconds", 60)]]

NotFound == [status |-> 404, detail |-> "Route not found"]

Success(route, key_data, limit_info) ==
    [status |-> 200,
     content |-> [status |-> "success", route |-> route.backend_url,
                  user_id |-> key_data.user_id, rate_limit |-> limit_info],
     headers |-> [X_RateLimit_Remaining |-> Get(limit_info, "remaining_hour", 0),
                  X_User_Tier |-> key_data.tier]]

\* the request got past validate_api_key
Authenticated(keys, api_key) == api_key # NoKey /\ Validates(keys, api_key)

\* the request got past the rate limiter as well
Admitted(keys, hist, buckets, api_key, t) ==
    /\ Authenticated(keys, api_key)
    /\ CheckResult(hist, buckets, ClientId(keys[api_key].user_id), keys[api_key].tier, t).allowed

\* the route is matched before the rate limit is checked
Response_RouteFirst(keys, hist, buckets, rs, api_key, path, method, t) ==
    IF api_key = NoKey THEN Unauthorized("API key required")
    ELSE IF ~Validates(keys, api_key) THEN Unauthorized("Invalid or revoked API key")
    ELSE IF MatchRoute(rs, path, method) = None THEN NotFound
    ELSE IF ~Admitted(keys, hist, buckets, api_key, t)
    THEN TooManyRequests(CheckResult(hist, buckets, ClientId(keys[api_key].user_id),
                                     keys[api_key].tier, t))
    ELSE Success(MatchRoute(rs, path, method), ValidateResult(keys, api_key, t),
                 CheckResult(hist, buckets, ClientId(keys[api_key].user_id),
                             keys[api_key].tier, t))

\* the tier of the route's rate_limit_override, else the tier of the key
OverrideOr(route, tier) ==
    IF route # None /\ route.rate_limit_override # "none"
    THEN route.rate_limit_override ELSE tier

\* a gateway that admits under the tier the matched route overrides the key's with
Response_RouteOverride(keys, hist, buckets, rs, api_key, path, method, t) ==
    IF api_key = NoKey THEN Unauthorized("API key required")
    ELSE IF ~Validates(keys, api_key) THEN Unauthorized("Invalid or revoked API key")
    ELSE IF ~CheckResult(hist, buckets, ClientId(keys[api_key].user_id),
                         OverrideOr(MatchRoute(rs, path, method), keys[api_key].tier),
                         t).allowed
    THEN TooManyRequests(CheckResult(hist, buckets, ClientId(keys[api_key].user_id),
                                     OverrideOr(MatchRoute(rs, path, method),
                                                keys[api_key].tier), t))
    ELSE IF MatchRoute(rs, path, method) = None THEN NotFound
    ELSE Success(MatchRoute(rs, path, method), ValidateResult(keys, api_key, t),
                 CheckResult(hist, buckets, ClientId(keys[api_key].user_id),
                             OverrideOr(MatchRoute(rs, path, method), keys[api_key].tier),
                             t))

\* what process_request answers
Response(keys, hist, buckets, rs, api_key, path, method, t) ==
    IF api_key = NoKey THEN Unauthorized("API key required")
    ELSE IF ~Validates(keys, api_key) THEN Unauthorized("Invalid or revoked API key")
    ELSE IF ~Admitted(keys, hist, buckets, api_key, t)
    THEN TooManyRequests(CheckResult(hist, buckets, ClientId(keys[api_key].user_id),
                                     keys[api_key].tier, t))
    ELSE IF MatchRoute(rs, path, method) = None THEN NotFound
    ELSE Success(MatchRoute(rs, path, method), ValidateResult(keys, api_key, t),
                 CheckResult(hist, buckets, ClientId(keys[api_key].user_id),
                             keys[api_key].tier, t))

\* a gateway that keeps a budget per key: the first request of a key finds the
\* list and the bucket of a new caller
ProcessRequestEffects_BudgetPerKey(api_key) ==
    IF api_key = NoKey
    THEN UNCHANGED <<api_keys, returned, limiterVars>>
    ELSE /\ Validates(api_keys, api_key) => api_keys[api_key].usage_count < MaxUsage
         /\ api_keys' = ApiKeysAfterValidate(api_keys, api_key, now)
         /\ returned' = ReturnedAfter(returned, api_keys, api_key)
         /\ IF Validates(api_keys, api_key)
            THEN LET c == ClientId(api_keys[api_key].user_id)
                     tier == api_keys[api_key].tier
                     first == api_keys[api_key].usage_count = 0
                     hist == IF first
                             THEN [x \in (DOMAIN request_history) \ {c} |-> request_history[x]]
                             ELSE request_history
                     buckets == IF first
                                THEN [x \in (DOMAIN token_buckets) \ {c} |-> token_buckets[x]]
                                ELSE token_buckets
                     res == CheckResult(hist, buckets, c, tier, now)
                 IN  /\ request_history' = HistoryAfter(hist, c, tier, now)
                     /\ token_buckets' = BucketsAfter(buckets, c, tier, now)
                     /\ last_check' = [last_check EXCEPT ![c] =
                                          [tier |-> tier, at |-> now, info |-> res]]
                     /\ admitted' = LogAfter(admitted, c, tier, res.allowed, now)
                     /\ depleted' = DepletedAfter(depleted, buckets, c, tier, now)
                     /\ tiers_used' = [tiers_used EXCEPT ![c] = @ \cup {tier}]
            ELSE UNCHANGED limiterVars

\* a gateway that counts the use of a key only when the request is admitted
ProcessRequestEffects_CountsAdmitted(api_key) ==
    IF api_key = NoKey
    THEN UNCHANGED <<api_keys, returned, limiterVars>>
    ELSE /\ Validates(api_keys, api_key) => api_keys[api_key].usage_count < MaxUsage
         /\ api_keys' = IF Admitted(api_keys, request_history, token_buckets, api_key, now)
                        THEN ApiKeysAfterValidate(api_keys, api_key, now)
                        ELSE api_keys
         /\ returned' = ReturnedAfter(returned, api_keys, api_key)
         /\ IF Validates(api_keys, api_key)
            THEN CheckRateLimit(ClientId(api_keys[api_key].user_id), api_keys[api_key].tier)
            ELSE UNCHANGED limiterVars

\* a gateway that checks the rate limit of any key it finds in the table,
\* revoked or not
ProcessRequestEffects_ChecksRevoked(api_key) ==
    IF api_key = NoKey
    THEN UNCHANGED <<api_keys, returned, limiterVars>>
    ELSE /\ Validates(api_keys, api_key) => api_keys[api_key].usage_count < MaxUsage
         /\ api_keys' = ApiKeysAfterValidate(api_keys, api_key, now)
         /\ returned' = ReturnedAfter(returned, api_keys, api_key)
         /\ IF api_key \in DOMAIN api_keys
            THEN CheckRateLimit(ClientId(api_keys[api_key].user_id), api_keys[api_key].tier)
            ELSE UNCHANGED limiterVars

\* what process_request does to the key table and to the limiter
ProcessRequestEffects(api_key) ==
    IF api_key = NoKey
    THEN UNCHANGED <<api_keys, returned, limiterVars>>
    ELSE /\ Validates(api_keys, api_key) => api_keys[api_key].usage_count < MaxUsage
         /\ api_keys' = ApiKeysAfterValidate(api_keys, api_key, now)
         /\ returned' = ReturnedAfter(returned, api_keys, api_key)
         /\ IF Validates(api_keys, api_key)
            THEN CheckRateLimit(ClientId(api_keys[api_key].user_id), api_keys[api_key].tier)
            ELSE UNCHANGED limiterVars

\* process_request(request): extract the key, validate it, check the rate
\* limit of the key's user under the key's tier, match the route, answer
\* the answer process_request gives
Responds(api_key, path, method) ==
    /\ last_response' = Response(api_keys, request_history, token_buckets, routes,
                                 api_key, path, method, now)
    /\ UNCHANGED <<routes, last_validate>>

\* process_request(request): extract the key, validate it, check the rate
\* limit of the key's user under the key's tier, match the route, answer
ProcessRequest(headers, path, method) ==
    /\ ProcessRequestEffects(ExtractApiKey(headers))
    /\ Responds(ExtractApiKey(headers), path, method)

\* a request arrives: ProcessRequest(h, path, method) for some h, path and method
Request == \E h \in RequestHeaders :
                /\ ProcessRequestEffects(ExtractApiKey(h))
                /\ \E path \in RequestPaths, method \in RequestMethods :
                        Responds(ExtractApiKey(h), path, method)
                /\ UNCHANGED <<now, ticks, cacheVars, auxVars>>

----------------------------------------------------------------------------
(* Strings that are built or searched: sequences of characters *)

\* sep.join(parts)
RECURSIVE Join(_, _)
Join(sep, parts) ==
    IF Len(parts) = 0 THEN <<>>
    ELSE IF Len(parts) = 1 THEN parts[1]
    ELSE parts[1] \o sep \o Join(sep, Tail(parts))

\* "pattern in str"
Contains(str, pattern) ==
    \E i \in 0..(Len(str) - Len(pattern)) : SubSeq(str, i + 1, i + Len(pattern)) = pattern

\* the characters of the model's strings, in code point order
Alphabet == <<"*", "0", "1", "2", ":", "=", "_", "a", "b", "e", "k", "u", "v">>

Rank(ch) == CHOOSE i \in 1..Len(Alphabet) : Alphabet[i] = ch

\* str < str
RECURSIVE StrLess(_, _)
StrLess(a, b) ==
    IF Len(b) = 0 THEN FALSE
    ELSE IF Len(a) = 0 THEN TRUE
    ELSE IF a[1] = b[1] THEN StrLess(Tail(a), Tail(b))
    ELSE Rank(a[1]) < Rank(b[1])

----------------------------------------------------------------------------
(* InMemoryCache: cache is a dict, access_times an insertion-ordered dict *)
(* held as the sequence of its (key, time) items                          *)

L1DefaultTtl == 100

AccessKeys(access) == {access[i].key : i \in 1..Len(access)}

\* access_times[key] = t: in place for a key that is there, at the end for a new one
AccessPut(access, key, t) ==
    IF key \in AccessKeys(access)
    THEN [i \in 1..Len(access) |->
              IF access[i].key = key THEN [key |-> key, time |-> t] ELSE access[i]]
    ELSE Append(access, [key |-> key, time |-> t])

\* a dict without key
Without(d, key) == [x \in (DOMAIN d) \ {key} |-> d[x]]

\* InMemoryCache.delete
L1Delete(l1, key) ==
    [cache |-> Without(l1.cache, key),
     access_times |-> SelectSeq(l1.access_times, LAMBDA item : item.key # key)]

\* eviction by insertion order: the first key of the dict
LruKey_FirstInserted(access) == access[1].key

\* min(self.access_times, key=self.access_times.get): the first key, in dict
\* order, among those with the smallest access time
LruKey(access) ==
    access[CHOOSE i \in 1..Len(access) :
              /\ \A j \in 1..Len(access) : access[i].time <= access[j].time
              /\ \A j \in 1..(i - 1) : access[j].time > access[i].time].key

\* InMemoryCache._evict_lru
L1EvictLru(l1) ==
    IF Len(l1.access_times) = 0 THEN l1 ELSE L1Delete(l1, LruKey(l1.access_times))

\* "ttl or self.default_ttl": 0 counts as no ttl
TtlOr(ttl, default_ttl) == IF ttl = 0 THEN default_ttl ELSE ttl

\* a set that never evicts
L1MadeRoom_NoEviction(l1) == l1

\* the cache InMemoryCache.set starts to write into: one entry evicted at capacity
L1MadeRoom(l1) ==
    IF Cardinality(DOMAIN l1.cache) >= L1MaxSize THEN L1EvictLru(l1) ELSE l1

\* InMemoryCache.set
L1Set(l1, key, value, ttl, t) ==
    [cache |-> Put(L1MadeRoom(l1).cache, key,
                   [value |-> value, expires_at |-> t + TtlOr(ttl, L1DefaultTtl),
                    created_at |-> t]),
     access_times |-> AccessPut(L1MadeRoom(l1).access_times, key, t)]

\* InMemoryCache.get finds the key and finds it not expired
L1Live(l1, key, t) == key \in DOMAIN l1.cache /\ ~(t > l1.cache[key].expires_at)

\* what InMemoryCache.get returns
L1Value(l1, key, t) == IF L1Live(l1, key, t) THEN l1.cache[key].value ELSE None

\* the cache InMemoryCache.get leaves behind
L1AfterGet(l1, key, t) ==
    IF key \notin DOMAIN l1.cache THEN l1
    ELSE IF t > l1.cache[key].expires_at THEN L1Delete(l1, key)
    ELSE [l1 EXCEPT !.access_times = AccessPut(l1.access_times, key, t)]

L1 == [cache |-> l1_cache, access_times |-> l1_access_times]

\* the L1 variables take the value l1
L1Becomes(l1) == l1_cache' = l1.cache /\ l1_access_times' = l1.access_times

----------------------------------------------------------------------------
(* RedisCache in simulation mode: redis_client is None, self.redis a dict *)

L2DefaultTtl == 3600

L2Live(redis, key, t) == key \in DOMAIN redis /\ ~(t > redis[key].expires_at)

\* what RedisCache.get returns
L2Value(redis, key, t) == IF L2Live(redis, key, t) THEN redis[key].value ELSE None

\* the dict RedisCache.get leaves behind
L2AfterGet(redis, key, t) ==
    IF key \in DOMAIN redis /\ t > redis[key].expires_at THEN Without(redis, key) ELSE redis

\* RedisCache.set
L2Set(redis, key, value, ttl, t) ==
    Put(redis, key, [value |-> value, expires_at |-> t + TtlOr(ttl, L2DefaultTtl)])

\* RedisCache.delete
L2Delete(redis, key) == Without(redis, key)

\* RedisCache.clear_pattern: the keys that contain the pattern as a substring go
ClearPattern(redis, pattern) ==
    [k \in {x \in DOMAIN redis : ~Contains(x, pattern)} |-> redis[k]]

----------------------------------------------------------------------------
(* MultiLayerCache *)

KeyHashThreshold == 200

\* hashlib.md5(key.encode()).hexdigest(): the digest is one symbol that names the
\* string it was computed from
Md5Hex(str) == <<[md5 |-> str]>>

\* f"{k}={v}" of every item, in the order given
ParamStrings(items) == [i \in 1..Len(items) |-> items[i].k \o <<"=">> \o items[i].v]

\* the keyword arguments left in call order
SortedParams_AsGiven(params) == params

\* sorted(params.items()): params is the sequence of the keyword arguments
SortedParams(params) ==
    CHOOSE sorted \in [1..Len(params) -> {params[i] : i \in 1..Len(params)}] :
        /\ \A i \in 1..Len(params) : \E j \in 1..Len(params) : sorted[j] = params[i]
        /\ \A i, j \in 1..Len(params) : i < j => StrLess(sorted[i].k, sorted[j].k)

\* _generate_cache_key
GenerateCacheKey(namespace, identifier, params) ==
    LET param_str == Join(<<"_">>, ParamStrings(SortedParams(params)))
        key == Join(<<":">>, SelectSeq(<<namespace, identifier, param_str>>,
                                       LAMBDA part : part # <<>>))
    IN  IF Len(key) > KeyHashThreshold
        THEN namespace \o <<":">> \o Md5Hex(key)
        ELSE key

\* ttl=100 of the write that populates L1 from L2
BackfillTtl == 100

\* what MultiLayerCache.get returns for key
GetValue(l1, redis, key, t) ==
    IF L1Value(l1, key, t) # None THEN L1Value(l1, key, t) ELSE L2Value(redis, key, t)

\* the tier MultiLayerCache.get counts the hit for
GetTier(l1, redis, key, t) ==
    IF L1Value(l1, key, t) # None THEN "l1"
    ELSE IF L2Value(redis, key, t) # None THEN "l2"
    ELSE "miss"

\* L1 after MultiLayerCache.get: the read, and the write of what L2 returned
L1AfterCacheGet(l1, redis, key, t) ==
    IF GetTier(l1, redis, key, t) = "l2"
    THEN L1Set(L1AfterGet(l1, key, t), key, L2Value(redis, key, t), BackfillTtl, t)
    ELSE L1AfterGet(l1, key, t)

\* L2 after MultiLayerCache.get: read only when L1 returned None
L2AfterCacheGet(l1, redis, key, t) ==
    IF GetTier(l1, redis, key, t) = "l1" THEN redis ELSE L2AfterGet(redis, key, t)

\* statistics that count an L1 miss only when L2 misses as well
StatsAfterGet_MissOnlyOnTotalMiss(st, tier) ==
    [total_requests |-> st.total_requests + 1,
     l1_hits |-> st.l1_hits + (IF tier = "l1" THEN 1 ELSE 0),
     l1_misses |-> st.l1_misses + (IF tier = "miss" THEN 1 ELSE 0),
     l2_hits |-> st.l2_hits + (IF tier = "l2" THEN 1 ELSE 0),
     l2_misses |-> st.l2_misses + (IF tier = "miss" THEN 1 ELSE 0)]

\* self.stats after MultiLayerCache.get found the value in tier, or nowhere
StatsAfterGet(st, tier) ==
    [total_requests |-> st.total_requests + 1,
     l1_hits |-> st.l1_hits + (IF tier = "l1" THEN 1 ELSE 0),
     l1_misses |-> st.l1_misses + (IF tier = "l1" THEN 0 ELSE 1),
     l2_hits |-> st.l2_hits + (IF tier = "l2" THEN 1 ELSE 0),
     l2_misses |-> st.l2_misses + (IF tier = "miss" THEN 1 ELSE 0)]

\* MultiLayerCache.get(namespace, identifier, **params)
CacheGet(namespace, identifier, params) ==
    LET key == GenerateCacheKey(namespace, identifier, params)
    IN  /\ stats.total_requests < MaxGets
        /\ stats' = StatsAfterGet(stats, GetTier(L1, l2_redis, key, now))
        /\ L1Becomes(L1AfterCacheGet(L1, l2_redis, key, now))
        /\ l2_redis' = L2AfterCacheGet(L1, l2_redis, key, now)
        /\ last_get' = [key |-> key, value |-> GetValue(L1, l2_redis, key, now),
                        from |-> GetTier(L1, l2_redis, key, now)]
        /\ UNCHANGED <<written, last_set>>

\* MultiLayerCache.set(namespace, identifier, value, l1_ttl, l2_ttl, **params)
CacheSet(namespace, identifier, value, l1_ttl, l2_ttl, params) ==
    LET key == GenerateCacheKey(namespace, identifier, params)
    IN  /\ L1Becomes(L1Set(L1, key, value, l1_ttl, now))
        /\ l2_redis' = L2Set(l2_redis, key, value, l2_ttl, now)
        /\ written' = Put(written, key, [namespace |-> namespace, value |-> value,
                                         invalidated |-> FALSE])
        /\ UNCHANGED <<stats, last_get, last_set>>

\* MultiLayerCache.delete(namespace, identifier, **params)
CacheDelete(namespace, identifier, params) ==
    LET key == GenerateCacheKey(namespace, identifier, params)
    IN  /\ L1Becomes(L1Delete(L1, key))
        /\ l2_redis' = L2Delete(l2_redis, key)
        /\ written' = Without(written, key)
        /\ UNCHANGED <<stats, last_get, last_set>>

\* InMemoryCache.clear
L1Cleared == [cache |-> EmptyDict, access_times |-> <<>>]

\* MultiLayerCache.invalidate_namespace(namespace)
InvalidateNamespace(namespace) ==
    /\ L1Becomes(L1Cleared)
    /\ l2_redis' = ClearPattern(l2_redis, namespace \o <<":", "*">>)
    /\ written' = [k \in DOMAIN written |->
                      IF written[k].namespace = namespace
                      THEN [written[k] EXCEPT !.invalidated = TRUE]
                      ELSE written[k]]
    /\ UNCHANGED <<stats, last_get, last_set>>

\* the inputs of the cache runs
Namespaces == {<<"u">>, <<"e">>, <<"a">>}
Identifiers == {<<"1">>}
ParamChoices == {<<>>}
CacheValues == {[v |-> "v1"], None}
TtlChoices == {[l1 |-> 100, l2 |-> 3600]}

MlGet == \E ns \in Namespaces, id \in Identifiers, params \in ParamChoices :
            /\ CacheGet(ns, id, params)
            /\ UNCHANGED <<now, ticks, limiterVars, keyVars, gatewayVars, auxVars>>

MlSet == \E ns \in Namespaces, id \in Identifiers, params \in ParamChoices,
           value \in CacheValues, ttl \in TtlChoices :
            /\ CacheSet(ns, id, value, ttl.l1, ttl.l2, params)
            /\ UNCHANGED <<now, ticks, limiterVars, keyVars, gatewayVars, auxVars>>

MlDelete == \E ns \in Namespaces, id \in Identifiers, params \in ParamChoices :
            /\ CacheDelete(ns, id, params)
            /\ UNCHANGED <<now, ticks, limiterVars, keyVars, gatewayVars, auxVars>>

MlInvalidate == \E ns \in Namespaces :
            /\ InvalidateNamespace(ns)
            /\ UNCHANGED <<now, ticks, limiterVars, keyVars, gatewayVars, auxVars>>

\* the keys, ttl arguments and values of the direct InMemoryCache calls; ttl 0 is
\* "no ttl"
L1Keys == {GenerateCacheKey(ns, <<"1">>, <<>>) : ns \in Namespaces}
              \cup {GenerateCacheKey(<<"u">>, <<"2">>, <<>>)}
L1Ttls == {0}
L1Values == {[v |-> "v1"]}

\* InMemoryCache.get(key)
L1GetCall == \E key \in L1Keys :
    /\ L1Becomes(L1AfterGet(L1, key, now))
    /\ last_get' = [key |-> key, value |-> L1Value(L1, key, now)]
    /\ UNCHANGED <<now, ticks, limiterVars, keyVars, gatewayVars, auxVars, l2_redis, stats,
                   written, last_set>>

\* the key InMemoryCache.set evicts, NoKey when it evicts none
Evicted(l1) ==
    IF Cardinality(DOMAIN l1.cache) >= L1MaxSize /\ Len(l1.access_times) > 0
    THEN LruKey(l1.access_times) ELSE NoKey

\* InMemoryCache.set(key, value, ttl)
L1SetCall == \E key \in L1Keys, value \in L1Values, ttl \in L1Ttls :
    /\ L1Becomes(L1Set(L1, key, value, ttl, now))
    /\ last_set' = [key |-> key, evicted |-> Evicted(L1),
                    first |-> IF Len(l1_access_times) = 0 THEN NoKey
                              ELSE l1_access_times[1].key]
    /\ UNCHANGED <<now, ticks, limiterVars, keyVars, gatewayVars, auxVars, l2_redis, stats,
                   written, last_get>>

\* InMemoryCache.delete(key)
L1DeleteCall == \E key \in L1Keys :
    /\ L1Becomes(L1Delete(L1, key))
    /\ UNCHANGED <<now, ticks, limiterVars, keyVars, gatewayVars, auxVars, l2_redis, stats,
                   written, last_get, last_set>>

\* InMemoryCache.clear()
L1ClearCall ==
    /\ L1Becomes(L1Cleared)
    /\ UNCHANGED <<now, ticks, limiterVars, keyVars, gatewayVars, auxVars, l2_redis, stats,
                   written, last_get, last_set>>

----------------------------------------------------------------------------
(* MultiLayerCache(redis_client): RedisCache in real Redis mode.  l2_redis is *)
(* what the server holds; a call on the client returns or raises, and        *)
(* nothing in RedisCache or MultiLayerCache catches what it raises.          *)

\* json.dumps(value, default=str) and json.loads of it, for values that JSON keeps
JsonDumps(value) == [json |-> value]
JsonLoads(text) == text.json

\* the server still holds the key: SETEX removes it once ttl seconds have passed
RedisLive(server, key, t) == key \in DOMAIN server /\ t < server[key].expires_at

\* RedisCache.get in real mode, when the client returns
RealL2Value(server, key, t) ==
    IF RedisLive(server, key, t) THEN JsonLoads(server[key].value) ELSE None

\* RedisCache.set in real mode, when the client returns
RealL2Set(server, key, value, ttl, t) ==
    Put(server, key, [value |-> JsonDumps(value),
                      expires_at |-> t + TtlOr(ttl, L2DefaultTtl)])

\* redis.keys(f"{namespace}:*"): the keys that start with the namespace and a colon
GlobKeys(server, namespace, t) ==
    {k \in DOMAIN server : RedisLive(server, k, t) /\ StartsWith(k, namespace \o <<":">>)}

\* RedisCache.clear_pattern in real mode, when the client returns
RealClearPattern(server, namespace, t) ==
    [k \in (DOMAIN server) \ GlobKeys(server, namespace, t) |-> server[k]]

\* how a call ended: whether its L2 call failed, whether the call raised, what it returned
Ended(op, l2_failed, raised, result) ==
    [op |-> op, l2_failed |-> l2_failed, raised |-> raised, result |-> result]

\* an exception raised by the client leaves the coroutine that awaits it
Raises(l2_failed) == l2_failed

\* MultiLayerCache.get on a real client whose get raises iff fails
RealGet(namespace, identifier, params, fails) ==
    LET key == GenerateCacheKey(namespace, identifier, params)
        l1v == L1Value(L1, key, now)
        l2v == RealL2Value(l2_redis, key, now)
    IN  /\ stats.total_requests < MaxGets
        /\ UNCHANGED <<l2_redis, last_get, written, last_set>>
        /\ IF l1v # None
           THEN /\ stats' = StatsAfterGet(stats, "l1")
                /\ L1Becomes(L1AfterGet(L1, key, now))
                /\ last_call' = Ended("get", FALSE, FALSE, l1v)
           ELSE IF fails
           THEN /\ stats' = [stats EXCEPT !.total_requests = @ + 1, !.l1_misses = @ + 1]
                /\ L1Becomes(L1AfterGet(L1, key, now))
                /\ last_call' = Ended("get", TRUE, Raises(TRUE), None)
           ELSE /\ stats' = StatsAfterGet(stats, IF l2v # None THEN "l2" ELSE "miss")
                /\ L1Becomes(IF l2v # None
                             THEN L1Set(L1AfterGet(L1, key, now), key, l2v, BackfillTtl, now)
                             ELSE L1AfterGet(L1, key, now))
                /\ last_call' = Ended("get", FALSE, FALSE, l2v)

\* MultiLayerCache.set on a real client whose setex raises iff fails
RealSet(namespace, identifier, value, l1_ttl, l2_ttl, params, fails) ==
    LET key == GenerateCacheKey(namespace, identifier, params)
    IN  /\ L1Becomes(L1Set(L1, key, value, l1_ttl, now))
        /\ l2_redis' = IF fails THEN l2_redis
                       ELSE RealL2Set(l2_redis, key, value, l2_ttl, now)
        /\ last_call' = Ended("set", fails, Raises(fails), None)
        /\ UNCHANGED <<stats, last_get, written, last_set>>

\* MultiLayerCache.delete on a real client whose delete raises iff fails
RealDelete(namespace, identifier, params, fails) ==
    LET key == GenerateCacheKey(namespace, identifier, params)
    IN  /\ L1Becomes(L1Delete(L1, key))
        /\ l2_redis' = IF fails THEN l2_redis ELSE Without(l2_redis, key)
        /\ last_call' = Ended("delete", fails, Raises(fails), None)
        /\ UNCHANGED <<stats, last_get, written, last_set>>

\* MultiLayerCache.invalidate_namespace on a real client whose keys raises iff fails
RealInvalidate(namespace, fails) ==
    /\ L1Becomes(L1Cleared)
    /\ l2_redis' = IF fails THEN l2_redis ELSE RealClearPattern(l2_redis, namespace, now)
    /\ last_call' = Ended("invalidate_namespace", fails, Raises(fails), None)
    /\ UNCHANGED <<stats, last_get, written, last_set>>

RedisGet == \E ns \in Namespaces, id \in Identifiers, params \in ParamChoices,
               fails \in BOOLEAN :
    /\ RealGet(ns, id, params, fails)
    /\ UNCHANGED <<now, ticks, limiterVars, keyVars, gatewayVars,
                   derived, last_match, registrations, mfaVars, flightVars>>

RedisSet == \E ns \in Namespaces, id \in Identifiers, params \in ParamChoices,
               value \in CacheValues, ttl \in TtlChoices, fails \in BOOLEAN :
    /\ RealSet(ns, id, value, ttl.l1, ttl.l2, params, fails)
    /\ UNCHANGED <<now, ticks, limiterVars, keyVars, gatewayVars,
                   derived, last_match, registrations, mfaVars, flightVars>>

RedisDelete == \E ns \in Namespaces, id \in Identifiers, params \in ParamChoices,
                  fails \in BOOLEAN :
    /\ RealDelete(ns, id, params, fails)
    /\ UNCHANGED <<now, ticks, limiterVars, keyVars, gatewayVars,
                   derived, last_match, registrations, mfaVars, flightVars>>

RedisInvalidate == \E ns \in Namespaces, fails \in BOOLEAN :
    /\ RealInvalidate(ns, fails)
    /\ UNCHANGED <<now, ticks, limiterVars, keyVars, gatewayVars,
                   derived, last_match, registrations, mfaVars, flightVars>>

\* a string of KeyHashThreshold characters: any key built from it is hashed
LongPart == [i \in 1..KeyHashThreshold |-> "k"]

\* the arguments of the _generate_cache_key calls: the keyword arguments are the
\* sequences, in call order, of up to two (name, str(value)) pairs with distinct names
DerivedNamespaces == Namespaces
DerivedIdentifiers == {<<"1">>, <<"2">>, LongPart}
ParamNames == {<<"a">>, <<"b">>}
\* str(v) of the values: "1", "2" and "1_b=2"
ParamValues == {<<"1">>, <<"2">>, <<"1", "_", "b", "=", "2">>}
ParamItems == {[k |-> name, v |-> value] : name \in ParamNames, value \in ParamValues}
ParamCalls ==
    {<<>>} \cup {<<p>> : p \in ParamItems}
           \cup {<<pq[1], pq[2]>> : pq \in {x \in ParamItems \X ParamItems : x[1].k # x[2].k}}

\* MultiLayerCache._generate_cache_key(namespace, identifier, **params)
DeriveKey ==
    \E ns \in DerivedNamespaces, id \in DerivedIdentifiers, params \in ParamCalls :
        /\ derived' = [namespace |-> ns, identifier |-> id, params |-> params,
                       key |-> GenerateCacheKey(ns, id, params)]
        /\ UNCHANGED <<now, ticks, limiterVars, keyVars, gatewayVars, cacheVars,
                       last_match, registrations, last_call, mfaVars, flightVars>>

\* datetime.utcnow() moves on: to an entry's expiry time, or past it
CacheDeltas == {L1DefaultTtl, L1DefaultTtl + 1}

CacheTick == \E d \in CacheDeltas :
                /\ ticks < MaxCacheTicks
                /\ now' = now + d
                /\ ticks' = ticks + 1
                /\ UNCHANGED <<limiterVars, keyVars, gatewayVars, cacheVars, auxVars>>

----------------------------------------------------------------------------
(* MFAAttemptTracker: failed verification attempts and the lockout *)

\* max_attempts and lockout_duration of the tracker, scaled down from 5 and 900
MaxAttempts == 2
LockoutDuration == 2
\* record_attempt calls per user, and clock advances, in one run of the tracker
MaxRecords == 4
MaxMfaTicks == 3

MfaUsers == {1, 2}

\* the entry record_attempt creates for a user it has not seen
NewAttempts == [count |-> 0, locked_until |-> NoTime, last_attempt |-> NoTime]

\* user_attempts["locked_until"] is set and datetime.utcnow() is before it
LockedUntilAhead(entry, t) == entry.locked_until # NoTime /\ t < entry.locked_until

\* the entry after the check of the lockout: an expired lockout is reset
AfterLockoutCheck(entry, t) ==
    IF entry.locked_until # NoTime /\ ~(t < entry.locked_until)
    THEN [entry EXCEPT !.count = 0, !.locked_until = NoTime]
    ELSE entry

\* a tracker that locks one failure late
MaxReached_OneLate(count) == count > MaxAttempts

\* user_attempts["count"] >= self.max_attempts
MaxReached(count) == count >= MaxAttempts

\* the entry record_attempt leaves for the user
EntryAfterRecord(entry, success, t) ==
    IF LockedUntilAhead(entry, t) THEN entry
    ELSE IF success
    THEN [AfterLockoutCheck(entry, t) EXCEPT !.count = 0, !.locked_until = NoTime]
    ELSE [count |-> AfterLockoutCheck(entry, t).count + 1,
          last_attempt |-> t,
          locked_until |-> IF MaxReached(AfterLockoutCheck(entry, t).count + 1)
                           THEN t + LockoutDuration
                           ELSE AfterLockoutCheck(entry, t).locked_until]

\* what record_attempt returns
RecordResult(entry, success, t) ==
    IF LockedUntilAhead(entry, t)
    THEN [allowed |-> FALSE, locked |-> TRUE, locked_until |-> entry.locked_until,
          remaining_attempts |-> 0]
    ELSE IF ~success /\ MaxReached(AfterLockoutCheck(entry, t).count + 1)
    THEN [allowed |-> FALSE, locked |-> TRUE, locked_until |-> t + LockoutDuration,
          remaining_attempts |-> 0]
    ELSE [allowed |-> TRUE, locked |-> FALSE,
          remaining_attempts |-> MaxAttempts - EntryAfterRecord(entry, success, t).count,
          attempts_used |-> EntryAfterRecord(entry, success, t).count]

\* is_locked_out(user_id)
IsLockedOut(att, user_id, t) ==
    user_id \in DOMAIN att /\ LockedUntilAhead(att[user_id], t)

\* history variable of the model: an attempt the tracker took in extends or ends
\* the user's run of failed attempts; one it turned away for the lockout does not
FailuresAfter(f, entry, success, t) ==
    IF LockedUntilAhead(entry, t) THEN [f EXCEPT !.calls = @ + 1]
    ELSE IF success THEN [calls |-> f.calls + 1, streak |-> 0, at |-> f.at]
    ELSE [calls |-> f.calls + 1, streak |-> f.streak + 1, at |-> t]

\* record_attempt(user_id, success)
RecordAttempt(user_id, success) ==
    LET entry == Get(attempts, user_id, NewAttempts)
    IN  /\ attempts' = Put(attempts, user_id, EntryAfterRecord(entry, success, now))
        /\ last_record' = [user_id |-> user_id, success |-> success, at |-> now,
                           was_locked |-> IsLockedOut(attempts, user_id, now),
                           result |-> RecordResult(entry, success, now)]
        /\ failures' = [failures EXCEPT ![user_id] = FailuresAfter(@, entry, success, now)]

\* reset_attempts(user_id): the entry goes, and with it the run of failures
ResetAttempts(user_id) ==
    /\ attempts' = Without(attempts, user_id)
    /\ failures' = [failures EXCEPT ![user_id] = [@ EXCEPT !.streak = 0, !.at = NoTime]]
    /\ UNCHANGED last_record

Record == \E u \in MfaUsers, success \in BOOLEAN :
            /\ failures[u].calls < MaxRecords
            /\ RecordAttempt(u, success)
            /\ UNCHANGED <<now, ticks, limiterVars, keyVars, gatewayVars, cacheVars,
                           derived, last_match, registrations, last_call, flightVars>>

Reset == \E u \in MfaUsers :
            /\ u \in DOMAIN attempts
            /\ ResetAttempts(u)
            /\ UNCHANGED <<now, ticks, limiterVars, keyVars, gatewayVars, cacheVars,
                           derived, last_match, registrations, last_call, flightVars>>

\* datetime.utcnow() moves on by one second
MfaTick == /\ ticks < MaxMfaTicks
           /\ now' = now + 1
           /\ ticks' = ticks + 1
           /\ UNCHANGED <<limiterVars, keyVars, gatewayVars, cacheVars, auxVars>>

----------------------------------------------------------------------------
(* MultiLayerCache on a real Redis client, with calls in flight.  A coroutine *)
(* runs without interruption up to its await of the client; the server acts  *)
(* on the request at some later moment, and the coroutine resumes after the  *)
(* reply.  Other coroutines run in between.                                  *)

\* the coroutines that call the cache, the key they all use and the values they set
FlightTasks == {"t1", "t2"}
FlightKey == GenerateCacheKey(<<"u">>, <<"1">>, <<>>)
FlightValues == {[v |-> "v1"], [v |-> "v2"]}
\* set and delete calls in one run
MaxFlightCalls == 3

Idle == [at |-> "idle"]

\* history variable of the model: a get has ended with this value; after_delete
\* tells that it began after a delete had completed, that no set was in flight
\* or issued while that delete ran, and that no set was issued since
GetEnded(f, value, after_delete) ==
    [f EXCEPT !.last = [value |-> value, after_delete |-> after_delete]]

\* MultiLayerCache.get up to the await of redis.get: the L1 read
FlightGetCall(t) ==
    LET value == L1Value(L1, FlightKey, now)
    IN  /\ tasks[t] = Idle
        /\ stats.total_requests < MaxGets
        /\ L1Becomes(L1AfterGet(L1, FlightKey, now))
        /\ UNCHANGED l2_redis
        /\ IF value # None
           THEN /\ stats' = StatsAfterGet(stats, "l1")
                /\ tasks' = tasks
                /\ flight' = GetEnded([flight EXCEPT !.issued = @ \cup {"get"}],
                                      value, flight.deleted)
           ELSE /\ stats' = [stats EXCEPT !.total_requests = @ + 1, !.l1_misses = @ + 1]
                /\ tasks' = [tasks EXCEPT ![t] = [at |-> "get_sent",
                                                  after_delete |-> flight.deleted]]
                /\ flight' = [flight EXCEPT !.issued = @ \cup {"get"}]

\* the server answers a GET
ServerGet(t) ==
    /\ tasks[t].at = "get_sent"
    /\ tasks' = [tasks EXCEPT ![t] = [at |-> "get_replied",
                                      after_delete |-> tasks[t].after_delete,
                                      value |-> RealL2Value(l2_redis, FlightKey, now)]]
    /\ UNCHANGED <<l1_cache, l1_access_times, l2_redis, stats, flight>>

\* MultiLayerCache.get from the reply on: count, write what L2 returned into L1
FlightGetReturn(t) ==
    /\ tasks[t].at = "get_replied"
    /\ tasks' = [tasks EXCEPT ![t] = Idle]
    /\ IF tasks[t].value # None
       THEN /\ stats' = [stats EXCEPT !.l2_hits = @ + 1]
            /\ L1Becomes(L1Set(L1, FlightKey, tasks[t].value, BackfillTtl, now))
       ELSE /\ stats' = [stats EXCEPT !.l2_misses = @ + 1]
            /\ UNCHANGED <<l1_cache, l1_access_times>>
    /\ flight' = GetEnded(flight, tasks[t].value, tasks[t].after_delete)
    /\ UNCHANGED l2_redis

\* MultiLayerCache.set up to the await of redis.setex: the L1 write
FlightSetCall(t, value) ==
    /\ tasks[t] = Idle
    /\ flight.calls < MaxFlightCalls
    /\ L1Becomes(L1Set(L1, FlightKey, value, L1DefaultTtl, now))
    /\ tasks' = [u \in FlightTasks |->
                    IF u = t THEN [at |-> "set_sent", value |-> value]
                    ELSE IF tasks[u].at \in {"get_sent", "get_replied"}
                    THEN [tasks[u] EXCEPT !.after_delete = FALSE]
                    ELSE IF tasks[u].at \in {"delete_sent", "delete_replied"}
                    THEN [tasks[u] EXCEPT !.no_set = FALSE]
                    ELSE tasks[u]]
    /\ flight' = [flight EXCEPT !.calls = @ + 1, !.issued = @ \cup {"set"},
                                !.deleted = FALSE]
    /\ UNCHANGED <<l2_redis, stats>>

\* the server carries out a SETEX
ServerSet(t) ==
    /\ tasks[t].at = "set_sent"
    /\ l2_redis' = RealL2Set(l2_redis, FlightKey, tasks[t].value, L2DefaultTtl, now)
    /\ tasks' = [tasks EXCEPT ![t] = [at |-> "set_replied"]]
    /\ UNCHANGED <<l1_cache, l1_access_times, stats, flight>>

\* MultiLayerCache.set from the reply on
FlightSetReturn(t) ==
    /\ tasks[t].at = "set_replied"
    /\ tasks' = [tasks EXCEPT ![t] = Idle]
    /\ UNCHANGED <<l1_cache, l1_access_times, l2_redis, stats, flight>>

\* MultiLayerCache.delete up to the await of redis.delete: the L1 delete
FlightDeleteCall(t) ==
    /\ tasks[t] = Idle
    /\ flight.calls < MaxFlightCalls
    /\ L1Becomes(L1Delete(L1, FlightKey))
    /\ tasks' = [tasks EXCEPT ![t] =
                    [at |-> "delete_sent",
                     no_set |-> \A u \in FlightTasks :
                                   tasks[u].at \notin {"set_sent", "set_replied"}]]
    /\ flight' = [flight EXCEPT !.calls = @ + 1, !.issued = @ \cup {"delete"}]
    /\ UNCHANGED <<l2_redis, stats>>

\* the server carries out a DEL
ServerDelete(t) ==
    /\ tasks[t].at = "delete_sent"
    /\ l2_redis' = Without(l2_redis, FlightKey)
    /\ tasks' = [tasks EXCEPT ![t] = [at |-> "delete_replied", no_set |-> tasks[t].no_set]]
    /\ UNCHANGED <<l1_cache, l1_access_times, stats, flight>>

\* MultiLayerCache.delete from the reply on: the delete has completed
FlightDeleteReturn(t) ==
    /\ tasks[t].at = "delete_replied"
    /\ tasks' = [tasks EXCEPT ![t] = Idle]
    /\ flight' = [flight EXCEPT !.deleted = tasks[t].no_set]
    /\ UNCHANGED <<l1_cache, l1_access_times, l2_redis, stats>>

\* what no step of a coroutine or of the server changes
FlightFrame ==
    UNCHANGED <<now, ticks, limiterVars, keyVars, gatewayVars, last_get, written, last_set,
                derived, last_match, registrations, last_call, mfaVars>>

FlightGet == \E t \in FlightTasks :
    (FlightGetCall(t) \/ ServerGet(t) \/ FlightGetReturn(t)) /\ FlightFrame

FlightSet == \E t \in FlightTasks :
    ((\E value \in FlightValues : FlightSetCall(t, value)) \/ ServerSet(t) \/ FlightSetReturn(t))
        /\ FlightFrame

FlightDelete == \E t \in FlightTasks :
    (FlightDeleteCall(t) \/ ServerDelete(t) \/ FlightDeleteReturn(t)) /\ FlightFrame

----------------------------------------------------------------------------
(* The state after construction, and the runs *)

Init ==
    /\ now = 0
    /\ ticks = 0
    /\ request_history = EmptyDict
    /\ token_buckets = EmptyDict
    /\ last_check = [c \in Clients |-> NoCheck]
    /\ admitted = [c \in Clients |-> <<>>]
    /\ depleted = [c \in Clients |-> {}]
    /\ tiers_used = [c \in Clients |-> {}]
    /\ api_keys = EmptyDict
    /\ last_validate = None
    /\ returned = [k \in AllKeys |-> 0]
    /\ routes = DefaultRoutes
    /\ last_response = None
    /\ l1_cache = EmptyDict
    /\ l1_access_times = <<>>
    /\ l2_redis = EmptyDict
    /\ stats = [l1_hits |-> 0, l1_misses |-> 0, l2_hits |-> 0, l2_misses |-> 0,
                total_requests |-> 0]
    /\ last_get = None
    /\ written = EmptyDict
    /\ last_set = None
    /\ derived = None
    /\ last_match = None
    /\ registrations = DefaultRoutes
    /\ last_call = None
    /\ attempts = EmptyDict
    /\ last_record = None
    /\ tasks = [t \in FlightTasks |-> Idle]
    /\ flight = [calls |-> 0, issued |-> {}, deleted |-> FALSE, last |-> None]
    /\ failures = [u \in MfaUsers |-> [calls |-> 0, streak |-> 0, at |-> NoTime]]

\* the rate limiter driven directly
LimiterNext == Check \/ LimiterTick

SpecLimiter == Init /\ [][LimiterNext]_vars

\* the key manager driven directly
KeysNext == Generate \/ Validate \/ Revoke \/ KeyTick

SpecKeys == Init /\ [][KeysNext]_vars

\* the gateway serving requests at one instant while keys are issued and revoked
GatewayNext == Generate \/ Revoke \/ Request

SpecGateway == Init /\ [][GatewayNext]_vars

\* the two-layer cache driven through MultiLayerCache
CacheNext == MlGet \/ MlSet \/ MlDelete \/ MlInvalidate \/ CacheTick

SpecCache == Init /\ [][CacheNext]_vars

\* the limiter with callers that change tier
MixedNext == MixedCheck \/ MixedTick

SpecMixed == Init /\ [][MixedNext]_vars

\* the fixed-window strategy called directly
FixedNext == FixedCheck \/ FixedTick

SpecFixed == Init /\ [][FixedNext]_vars

\* the router of the gateway, driven directly
RouterNext == AddRouteCall \/ MatchCall

SpecRouter == Init /\ [][RouterNext]_vars

\* the two-layer cache on a real Redis client
RedisNext == RedisGet \/ RedisSet \/ RedisDelete \/ RedisInvalidate

SpecRedis == Init /\ [][RedisNext]_vars

\* key derivation on its own
DeriveNext == DeriveKey

SpecDerive == Init /\ [][DeriveNext]_vars

\* the attempt tracker driven directly
MfaNext == Record \/ Reset \/ MfaTick

SpecMfa == Init /\ [][MfaNext]_vars

\* gets and sets of two namespaces over time, for the statistics
StatsNamespaces == {<<"u">>, <<"e">>}

StatsGet == \E ns \in StatsNamespaces, id \in Identifiers, params \in ParamChoices :
            /\ CacheGet(ns, id, params)
            /\ UNCHANGED <<now, ticks, limiterVars, keyVars, gatewayVars, auxVars>>

StatsSet == \E ns \in StatsNamespaces, id \in Identifiers, params \in ParamChoices,
              value \in CacheValues, ttl \in TtlChoices :
            /\ CacheSet(ns, id, value, ttl.l1, ttl.l2, params)
            /\ UNCHANGED <<now, ticks, limiterVars, keyVars, gatewayVars, auxVars>>

StatsNext == StatsGet \/ StatsSet \/ CacheTick

SpecStats == Init /\ [][StatsNext]_vars

\* the three strategies side by side: a sliding-window tier, a token-bucket
\* tier and the fixed window; a caller stays with the strategy it was first
\* checked under
StrategyTiers == {"free", "professional"}

StrategyCheck == \E c \in Clients, tier \in StrategyTiers :
                    /\ last_check[c].tier # "fixed_window"
                    /\ tiers_used[c] \subseteq {tier}
                    /\ CheckRateLimit(c, tier)
                    /\ UNCHANGED <<now, ticks, keyVars, gatewayVars, cacheVars, auxVars>>

StrategyFixedCheck == \E c \in Clients :
                    /\ tiers_used[c] = {}
                    /\ CheckFixedWindow(c, FixedConfig)
                    /\ UNCHANGED <<now, ticks, keyVars, gatewayVars, cacheVars, auxVars>>

StrategiesNext == StrategyCheck \/ StrategyFixedCheck \/ LimiterTick

SpecStrategies == Init /\ [][StrategiesNext]_vars

\* coroutines calling the cache on a real Redis client while time passes
FlightNext == FlightGet \/ FlightSet \/ FlightDelete \/ CacheTick

SpecFlight == Init /\ [][FlightNext]_vars

\* the local cache driven directly
L1Next == L1GetCall \/ L1SetCall \/ L1DeleteCall \/ L1ClearCall \/ CacheTick

SpecL1 == Init /\ [][L1Next]_vars

----------------------------------------------------------------------------
(* Properties of the rate limiter, checked under SpecLimiter *)

SlidingTiers == {t \in Tiers : Strategy(t) = "sliding_window"}
BucketTiers == {t \in Tiers : Strategy(t) = "token_bucket"}

\* the entries of log a within the w seconds that end at a[i]: the window (a[i] - w, a[i]]
InWindow(a, i, w) == {j \in 1..Len(a) : a[j] > a[i] - w /\ a[j] <= a[i]}

\* the entries of log a in the closed interval [a[i] - w, a[i]]
InClosedWindow(a, i, w) == {j \in 1..Len(a) : a[j] >= a[i] - w /\ a[j] <= a[i]}

\* C1: for a caller under a sliding-window tier, the admitted requests of any
\* 60-second window (x - 60, x] never number more than the tier's
\* requests_per_minute, and those of any 3600-second window (x - 3600, x]
\* never more than its requests_per_hour.
C1_SlidingWindowBound ==
    \A c \in Clients : \A tier \in SlidingTiers :
        tiers_used[c] = {tier} =>
            \A i \in 1..Len(admitted[c]) :
                /\ Cardinality(InWindow(admitted[c], i, MinuteWindow))
                      <= RATE_LIMIT_CONFIGS[tier].requests_per_minute
                /\ Cardinality(InWindow(admitted[c], i, HourWindow))
                      <= RATE_LIMIT_CONFIGS[tier].requests_per_hour

\* a caller that exhausted the hour although no minute was full, and was rejected for it
C1_Witness ==
    \E c \in Clients :
        /\ tiers_used[c] = {"free"}
        /\ Len(admitted[c]) = FreePerHour
        /\ last_check[c].tier = "free"
        /\ ~last_check[c].info.allowed
        /\ last_check[c].info.reason = "Per-hour limit exceeded"

AllWithinOneSecond(h, t) == \A i \in 1..Len(h) : h[i] >= t - 1 /\ h[i] <= t

\* C2: for a fresh caller under a sliding-window tier whose per-minute limit M
\* is below its per-hour limit, checks issued within one second are admitted
\* while fewer than M were admitted and rejected once M were; when 61 seconds
\* or more have passed since those M checks, the next check is admitted.
C2_BurstThenWait ==
    [][\A c \in Clients : \A tier \in SlidingTiers :
        LET cfg == RATE_LIMIT_CONFIGS[tier]
            h == Get(request_history, c, <<>>)
        IN  (/\ cfg.requests_per_minute < cfg.requests_per_hour
             /\ tiers_used[c] \subseteq {tier}
             /\ CheckRateLimit(c, tier))
            => /\ (AllWithinOneSecond(h, now) /\ Len(h) < cfg.requests_per_minute)
                    => last_check'[c].info.allowed
               /\ (AllWithinOneSecond(h, now) /\ Len(h) = cfg.requests_per_minute)
                    => ~last_check'[c].info.allowed
               /\ (/\ Len(h) = cfg.requests_per_minute
                   /\ AllWithinOneSecond(h, h[Len(h)])
                   /\ now >= h[Len(h)] + MinuteWindow + 1)
                    => last_check'[c].info.allowed
    ]_vars

\* M checks in one second, then the check after the wait was admitted
C2_Witness ==
    \E c \in Clients :
        /\ tiers_used[c] = {"free"}
        /\ c \in DOMAIN request_history
        /\ Len(request_history[c]) = FreePerMinute + 1
        /\ \A i \in 1..FreePerMinute : request_history[c][i] = request_history[c][1]
        /\ request_history[c][FreePerMinute + 1] = now
        /\ now >= request_history[c][1] + MinuteWindow + 1
        /\ last_check[c].info.allowed

\* the admitted checks after a moment d at which the bucket held less than one token
AfterDepletion(a, d) == {j \in 1..Len(a) : a[j] > d /\ a[j] <= d + HourWindow}

\* C3: for a caller under a token-bucket tier, the admitted requests of any
\* 3600-second interval [x - 3600, x] never number more than burst_size +
\* requests_per_hour, and those of the 3600 seconds that follow a moment at
\* which the bucket was drained below one token (steady state) never more
\* than requests_per_hour.
C3_TokenBucketBound ==
    \A c \in Clients : \A tier \in BucketTiers :
        tiers_used[c] = {tier} =>
            /\ \A i \in 1..Len(admitted[c]) :
                  Cardinality(InClosedWindow(admitted[c], i, HourWindow))
                      <= RATE_LIMIT_CONFIGS[tier].burst_size
                           + RATE_LIMIT_CONFIGS[tier].requests_per_hour
            /\ \A d \in depleted[c] :
                  Cardinality(AfterDepletion(admitted[c], d))
                      <= RATE_LIMIT_CONFIGS[tier].requests_per_hour

\* an hour from a cold start that admitted burst_size + requests_per_hour requests,
\* requests_per_hour of them after the burst had drained the bucket
C3_Witness ==
    \E c \in Clients :
        /\ tiers_used[c] = {"professional"}
        /\ Len(admitted[c]) = ProBurst + ProPerHour
        /\ admitted[c][Len(admitted[c])] - admitted[c][1] <= HourWindow
        /\ \E d \in depleted[c] : Cardinality(AfterDepletion(admitted[c], d)) = ProPerHour

\* the admitted check reported that it took the last slot or the last token
TookTheLast(info) ==
    \/ "remaining_minute" \in DOMAIN info /\ (info.remaining_minute = 0 \/ info.remaining_hour = 0)
    \/ "remaining_tokens" \in DOMAIN info /\ info.remaining_tokens = 0

\* C4: when a check of a caller was admitted with exactly one slot or one
\* token available, a second check of the same caller at the same instant is
\* rejected: the two never both see the state before the first one's update.
C4_NoDoubleAdmission ==
    [][\A c \in Clients : \A tier \in Tiers \ {"unlimited"} :
        (/\ last_check[c].tier = tier
         /\ last_check[c].at = now
         /\ last_check[c].info.allowed
         /\ TookTheLast(last_check[c].info)
         /\ CheckRateLimit(c, tier))
        => ~last_check'[c].info.allowed
    ]_vars

\* two checks at one instant: the first took the last slot, the second was rejected
C4_Witness ==
    \E c \in Clients :
        /\ last_check[c].tier \in Tiers \ {"unlimited"}
        /\ last_check[c].at = now
        /\ ~last_check[c].info.allowed
        /\ admitted[c] # <<>>
        /\ admitted[c][Len(admitted[c])] = now

----------------------------------------------------------------------------
(* Properties of the key manager, checked under SpecKeys *)

Revoked(keys, k) == k \in DOMAIN keys /\ ~keys[k].is_active

\* C5: once a key is revoked it stays revoked whatever is generated,
\* validated or revoked afterwards, and validate_api_key of it returns None
\* and changes nothing, exactly as for a key that was never issued.
C5_RevokedStaysInvalid ==
    [][\A k \in AllKeys :
        /\ RevokeApiKey(k) /\ k \in DOMAIN api_keys => Revoked(api_keys', k)
        /\ Revoked(api_keys, k) => Revoked(api_keys', k)
        /\ (Revoked(api_keys, k) \/ k \notin DOMAIN api_keys) /\ ValidateApiKey(k)
              => last_validate'.result = None /\ api_keys' = api_keys
    ]_vars

\* a key that was used, then revoked, then presented again and refused
C5_Witness ==
    /\ last_validate # None
    /\ last_validate.result = None
    /\ Revoked(api_keys, last_validate.api_key)
    /\ api_keys[last_validate.api_key].usage_count > 0

----------------------------------------------------------------------------
(* Properties of the gateway, checked under SpecGateway *)

SomeRouteMatches(path, method) ==
    \E i \in 1..Len(routes) :
        StartsWith(path, routes[i].pattern) /\ method \in routes[i].config.methods

\* the backend of the earliest registered route that matches
FirstBackend(path, method) ==
    LET first == CHOOSE i \in 1..Len(routes) :
                    /\ StartsWith(path, routes[i].pattern)
                    /\ method \in routes[i].config.methods
                    /\ \A j \in 1..(i - 1) :
                          ~(StartsWith(path, routes[j].pattern)
                              /\ method \in routes[j].config.methods)
    IN  routes[first].config.backend_url

\* C6: process_request answers exactly one of 401, 429, 404 and 200: 401
\* when the key is missing, unknown or revoked, and then neither the key
\* table nor the limiter is touched; otherwise the key's use is counted and
\* the limiter is asked under the key's tier, and the answer is 429 when it
\* rejects, else 404 when no route matches, else 200 with the backend of the
\* first matching route.
C6_Pipeline ==
    [][\A h \in RequestHeaders :
        ProcessRequestEffects(ExtractApiKey(h)) =>
            \A path \in RequestPaths, method \in RequestMethods :
                Responds(ExtractApiKey(h), path, method) =>
                    LET k == ExtractApiKey(h)
                        auth == k # NoKey /\ k \in DOMAIN api_keys /\ api_keys[k].is_active
                        r == last_response'
                    IN  /\ r.status \in {401, 429, 404, 200}
                        /\ r.status = 401 <=> ~auth
                        /\ ~auth => UNCHANGED <<api_keys, limiterVars>>
                        /\ auth =>
                            LET client == ClientId(api_keys[k].user_id)
                                adm == last_check'[client].info.allowed
                            IN  /\ api_keys'[k].usage_count = api_keys[k].usage_count + 1
                                /\ last_check'[client].tier = api_keys[k].tier
                                /\ last_check'[client].at = now
                                /\ r.status = 429 <=> ~adm
                                /\ r.status = 404 <=> adm /\ ~SomeRouteMatches(path, method)
                                /\ r.status = 200 <=> adm /\ SomeRouteMatches(path, method)
                                /\ r.status = 200 =>
                                      r.content.route = FirstBackend(path, method)
    ]_vars

\* a request with a valid key that the limiter rejected
C6_Witness ==
    /\ last_response # None
    /\ last_response.status = 429
    /\ \E k \in DOMAIN api_keys : api_keys[k].is_active /\ api_keys[k].usage_count = MaxUsage


----------------------------------------------------------------------------
(* Claims about the caches *)

\* C7: once invalidate_namespace(ns) has completed, a get of a key that was
\* cached under ns by set returns None (a miss) for as long as the key is not
\* set again.
C7_InvalidatedIsMiss ==
    [][\A ns \in Namespaces, id \in Identifiers, params \in ParamChoices :
          LET key == GenerateCacheKey(ns, id, params)
          IN  (/\ CacheGet(ns, id, params)
               /\ key \in DOMAIN written
               /\ written[key].invalidated)
              => last_get'.value = None]_vars

\* the latest set of key is still in force: no delete and no invalidate_namespace
\* of its namespace came after it
InForce(key) == key \in DOMAIN written /\ ~written[key].invalidated

\* C8: for every value v, a get of a key whose set(ns, id, v) is in force
\* returns v: served from L1 while L1 holds the entry unexpired, otherwise
\* served from L2, and then the key is in L1 again.
C8_RoundTrip ==
    [][\A ns \in Namespaces, id \in Identifiers, params \in ParamChoices :
          LET key == GenerateCacheKey(ns, id, params)
          IN  (CacheGet(ns, id, params) /\ InForce(key))
              => /\ last_get'.value = written[key].value
                 /\ IF L1Live(L1, key, now)
                    THEN last_get'.from = "l1"
                    ELSE last_get'.from = "l2" /\ key \in DOMAIN l1_cache']_vars

\* access_times[key]
AccessTime(access, key) ==
    access[CHOOSE i \in 1..Len(access) : access[i].key = key].time

\* C9: a set of a key that is not in a full local cache removes exactly one
\* entry, one whose last-access time is the smallest, and keeps every other
\* entry; a get that returns a value sets that entry's last-access time to now.
C9_LruEviction ==
    [][/\ \A k \in L1Keys :
            (/\ k \notin DOMAIN l1_cache
             /\ k \in DOMAIN l1_cache'
             /\ Cardinality(DOMAIN l1_cache) = L1MaxSize)
            => \E e \in DOMAIN l1_cache :
                  /\ DOMAIN l1_cache' = ((DOMAIN l1_cache) \ {e}) \cup {k}
                  /\ \A x \in DOMAIN l1_cache :
                        AccessTime(l1_access_times, e) <= AccessTime(l1_access_times, x)
                  /\ \A x \in (DOMAIN l1_cache) \ {e} :
                        /\ l1_cache'[x] = l1_cache[x]
                        /\ AccessTime(l1_access_times', x) = AccessTime(l1_access_times, x)
       /\ (last_get' # last_get /\ last_get'.value # None)
            => AccessTime(l1_access_times', last_get'.key) = now]_vars

\* a set evicted an entry that was not the first inserted: the first inserted had
\* been read since, and it is still in the cache
C9_Witness ==
    /\ last_set # None
    /\ last_set.evicted # NoKey
    /\ last_set.evicted # last_set.first
    /\ last_get # None
    /\ last_get.value # None
    /\ last_get.key = last_set.first
    /\ last_get.key \in DOMAIN l1_cache

\* C10: the local cache never holds more than max_size entries, whatever the
\* order in which get, set, delete and clear calls run; the access times are kept
\* for exactly the cached keys.
C10_CapacityBound ==
    /\ Cardinality(DOMAIN l1_cache) <= L1MaxSize
    /\ AccessKeys(l1_access_times) = DOMAIN l1_cache
    /\ Len(l1_access_times) = Cardinality(DOMAIN l1_cache)

\* the cache is full after a set that had to evict to stay within max_size
C10_Witness ==
    /\ Cardinality(DOMAIN l1_cache) = L1MaxSize
    /\ last_set # None
    /\ last_set.evicted # NoKey
    /\ last_set.key \in DOMAIN l1_cache


----------------------------------------------------------------------------
(* Claims about key derivation, the fixed window, the router and the hints *)

\* the same keyword arguments in the other call orders
Reorderings(params) ==
    {q \in ParamCalls : /\ Len(q) = Len(params)
                        /\ {q[i] : i \in 1..Len(q)} = {params[i] : i \in 1..Len(params)}}

\* C11: the key derived for a namespace, an identifier and keyword arguments is
\* the key derived for the same namespace, identifier and arguments given in
\* any other order, whether or not the key is long enough to be hashed.
C11_KeyOrderIndependent ==
    derived # None =>
        \A q \in Reorderings(derived.params) :
            GenerateCacheKey(derived.namespace, derived.identifier, q) = derived.key

\* a hashed key was derived from two arguments given in descending name order
C11_Witness ==
    /\ derived # None
    /\ Len(derived.params) = 2
    /\ StrLess(derived.params[2].k, derived.params[1].k)
    /\ Cardinality(Reorderings(derived.params)) = 2
    /\ derived.key = derived.namespace \o <<":">> \o
           Md5Hex(Join(<<":">>, <<derived.namespace, derived.identifier,
                                  Join(<<"_">>, ParamStrings(<<derived.params[2],
                                                              derived.params[1]>>))>>))


\* the admitted checks of caller c that fall in the window of time t
AdmittedInWindow(c, t) == {i \in DOMAIN admitted[c] : WindowId(admitted[c][i]) = WindowId(t)}

\* C12: a fixed-window check is admitted exactly when fewer than the per-hour
\* limit of the caller's admitted checks have the window id floor(t/3600) of
\* the check, so checks of an earlier window never count, however recent; a
\* caller rejected in one window is admitted on its first check in a later one.
C12_FixedWindowBoundary ==
    [][\A c \in Clients :
          CheckFixedWindow(c, FixedConfig)
          => /\ last_check'[c].info.allowed
                  <=> Cardinality(AdmittedInWindow(c, now)) < FixedPerHour
             /\ (/\ last_check[c].tier = "fixed_window"
                 /\ ~last_check[c].info.allowed
                 /\ WindowId(last_check[c].at) < WindowId(now))
                => last_check'[c].info.allowed]_vars

\* a check was admitted one second after the caller exhausted the previous window
C12_Witness ==
    \E c \in Clients :
        /\ last_check[c].tier = "fixed_window"
        /\ last_check[c].at = now
        /\ last_check[c].info.allowed
        /\ WindowId(now - 1) < WindowId(now)
        /\ Cardinality({i \in DOMAIN admitted[c] : admitted[c][i] = now - 1}) = FixedPerHour


\* route i of the table satisfies both conditions for path and method
RouteFits(i, path, method) ==
    StartsWith(path, routes[i].pattern) /\ method \in routes[i].config.methods

C14_RegistrationsKept ==
    \A i \in 1..Len(registrations) :
        \E j \in 1..Len(routes) :
            /\ routes[j] = registrations[i]
            /\ \A i2 \in (i + 1)..Len(registrations), j2 \in 1..Len(routes) :
                  routes[j2] = registrations[i2] => j <= j2


\* C15: a MultiLayerCache call whose L2 call fails does not fail itself: it
\* returns, and a get returns None (the miss).
C15_L2FailureAbsorbed ==
    (last_call # None /\ last_call.l2_failed)
        => /\ ~last_call.raised
           /\ last_call.op = "get" => last_call.result = None


\* C16: a check under the unlimited tier is allowed and reports the tier name
\* only, whatever the limiter holds, and it changes no timestamp list and no
\* token bucket of any caller.
C16_UnlimitedAlwaysAllowed ==
    [][\A c \in Clients :
          CheckRateLimit(c, "unlimited")
          => /\ last_check'[c].info = [allowed |-> TRUE, tier |-> "unlimited"]
             /\ request_history' = request_history
             /\ token_buckets' = token_buckets]_vars

\* an unlimited check of a caller whose sliding-window budget is used up and
\* whose bucket is below one token
C16_Witness ==
    \E c \in Clients :
        /\ last_check[c].tier = "unlimited"
        /\ last_check[c].at = now
        /\ c \in DOMAIN request_history
        /\ MinuteLimitHit(request_history[c], now, RATE_LIMIT_CONFIGS["free"])
        /\ c \in DOMAIN token_buckets
        /\ token_buckets[c].tokens < TokenUnit


\* C17: the usage count of every key is the number of validate_api_key calls
\* that returned its key data; a call that returns key data raises the count of
\* that key by exactly one and sets its last_used to the time of the call, and
\* a call that returns None changes no key data.
C17_UsageCountsValidations ==
    /\ [](\A k \in DOMAIN api_keys : api_keys[k].usage_count = returned[k])
    /\ [][\A k \in AllKeys :
            ValidateApiKey(k)
            => IF last_validate'.result # None
               THEN /\ api_keys'[k].usage_count = api_keys[k].usage_count + 1
                    /\ api_keys'[k].last_used = now
                    /\ api_keys' = [api_keys EXCEPT ![k] = api_keys'[k]]
                    /\ last_validate'.result = api_keys'[k]
               ELSE api_keys' = api_keys]_vars

\* a key validated for the second time, at a later time than the first
C17_Witness ==
    /\ last_validate # None
    /\ last_validate.result # None
    /\ last_validate.result.usage_count = 2
    /\ returned[last_validate.api_key] = 2
    /\ last_validate.result.last_used = now
    /\ now > 0
    /\ \E k \in DOMAIN api_keys : ~api_keys[k].is_active


\* C18: revoke_api_key of a key of the table leaves a table that differs only
\* in that key's is_active, now False, so the record keeps its user, tier and
\* usage count; of a key that is already revoked, or of an unknown key, it
\* leaves the table as it was.
C18_RevokeIdempotent ==
    [][\A k \in AllKeys :
          RevokeApiKey(k)
          => /\ k \in DOMAIN api_keys
                  => /\ DOMAIN api_keys' = DOMAIN api_keys
                     /\ api_keys' = [api_keys EXCEPT ![k].is_active = FALSE]
                     /\ api_keys'[k].user_id = api_keys[k].user_id
                     /\ api_keys'[k].tier = api_keys[k].tier
                     /\ api_keys'[k].usage_count = api_keys[k].usage_count
             /\ (k \notin DOMAIN api_keys \/ Revoked(api_keys, k))
                  => api_keys' = api_keys]_vars

\* a revoked key whose record still shows every use, next to a key still active
C18_Witness ==
    \E k, other \in DOMAIN api_keys :
        /\ ~api_keys[k].is_active
        /\ api_keys[k].usage_count = MaxUsage
        /\ returned[k] = MaxUsage
        /\ api_keys[other].is_active


\* the least integer that is at least a / b, for a >= 0 and b > 0
CeilDiv(a, b) == (a + b - 1) \div b

\* C19: a rejected token-bucket check reports the wait ceil((1 - tokens) /
\* refill_rate) seconds, tokens being the bucket's content after the refill
\* (which the rejected call leaves in the bucket) and refill_rate being
\* requests_per_hour / 3600; in units of 1/3600 token that is
\* ceil((3600 - tokens) / requests_per_hour).
C19_RetryIsCeiling ==
    \A c \in Clients : \A tier \in BucketTiers :
        (last_check[c].tier = tier /\ ~last_check[c].info.allowed)
        => last_check[c].info.retry_after_seconds
              = CeilDiv(TokenUnit - token_buckets[c].tokens,
                        RATE_LIMIT_CONFIGS[tier].requests_per_hour)

\* the smallest element of a non-empty set of times
Oldest(times) == CHOOSE ts \in times : \A other \in times : ts <= other

\* the timestamps of caller c that were newer than w seconds at its last check
InLast(c, w) ==
    {request_history[c][i] : i \in 1..Len(request_history[c])}
        \cap {ts \in 0..last_check[c].at : ts > last_check[c].at - w}

\* C20: a sliding-window check rejected for the per-minute limit reports as
\* reset_in_seconds the time until the oldest timestamp of the last 60 seconds
\* is 60 seconds old, and one rejected for the per-hour limit the time until
\* the oldest timestamp of the last 3600 seconds is 3600 seconds old.
C20_ResetIsTimeToAgeOut ==
    \A c \in Clients : \A tier \in SlidingTiers :
        (last_check[c].tier = tier /\ ~last_check[c].info.allowed)
        => /\ last_check[c].info.reason = "Per-minute limit exceeded"
                => last_check[c].info.reset_in_seconds
                      = MinuteWindow - (last_check[c].at - Oldest(InLast(c, MinuteWindow)))
           /\ last_check[c].info.reason = "Per-hour limit exceeded"
                => last_check[c].info.reset_in_seconds
                      = HourWindow - (last_check[c].at - Oldest(InLast(c, HourWindow)))

----------------------------------------------------------------------------
(* Claims about the hints of a rejection, the decorator, expiry, the        *)
(* attempt tracker, the buckets, the statistics and the frame of a check   *)

\* the retry value the rejecting strategy computed: the token bucket's
\* retry_after_seconds, a window strategy's reset_in_seconds
RetryValue(info) ==
    IF "retry_after_seconds" \in DOMAIN info
    THEN info.retry_after_seconds
    ELSE info.reset_in_seconds

\* C21: whenever the gateway answers 429, the Retry-After it exposes is the
\* retry value that the strategy which rejected the request computed, never
\* the constant default.
C21_RetryHintFromStrategy ==
    [][\A c \in Clients :
          (last_check'[c] # last_check[c] /\ ~last_check'[c].info.allowed)
          => /\ last_response'.status = 429
             /\ last_response'.headers.Retry_After = RetryValue(last_check'[c].info)]_vars

----------------------------------------------------------------------------
(* MultiLayerCache.cache_decorator: the wrapper of a decorated coroutine *)

\* the keyword arguments the wrapper passes to get and set: args=str(args),
\* kwargs=str(kwargs)
WrapperParams(args, kwargs) ==
    <<[k |-> <<"a", "r", "g", "s">>, v |-> args],
      [k |-> <<"k", "w", "a", "r", "g", "s">>, v |-> kwargs]>>

\* what one call of the wrapper did: the n-th get of the cache, whether func was
\* executed, and what the wrapper returned
Wrapped(n, key, executed, result) ==
    [op |-> "wrapper", n |-> n, key |-> key, executed |-> executed, result |-> result]

\* wrapper(*args, **kwargs) of a coroutine decorated with
\* cache_decorator(namespace, l1_ttl, l2_ttl) and no key_generator; func_name is
\* func.__name__ and func_result what func returns if it is executed
Wrapper(namespace, func_name, l1_ttl, l2_ttl, args, kwargs, func_result) ==
    LET params == WrapperParams(args, kwargs)
        key == GenerateCacheKey(namespace, func_name, params)
        cached_value == GetValue(L1, l2_redis, key, now)
        l1 == L1AfterCacheGet(L1, l2_redis, key, now)
        redis == L2AfterCacheGet(L1, l2_redis, key, now)
    IN  /\ stats.total_requests < MaxGets
        /\ stats' = StatsAfterGet(stats, GetTier(L1, l2_redis, key, now))
        /\ last_get' = [key |-> key, value |-> cached_value,
                        from |-> GetTier(L1, l2_redis, key, now)]
        /\ IF cached_value # None
           THEN /\ L1Becomes(l1)
                /\ l2_redis' = redis
                /\ UNCHANGED written
                /\ last_call' = Wrapped(stats.total_requests + 1, key, FALSE, cached_value)
           ELSE /\ L1Becomes(L1Set(l1, key, func_result, l1_ttl, now))
                /\ l2_redis' = L2Set(redis, key, func_result, l2_ttl, now)
                /\ written' = Put(written, key, [namespace |-> namespace,
                                                 value |-> func_result,
                                                 invalidated |-> FALSE])
                /\ last_call' = Wrapped(stats.total_requests + 1, key, TRUE, func_result)
        /\ UNCHANGED last_set

\* the decorated coroutine of the runs, the str() of its arguments and what it
\* may return
FuncName == <<"f">>
ArgsStrings == {<<"(", "1", ",", ")">>, <<"(", "2", ",", ")">>}
KwargsString == <<"{", "}">>
FuncResults == {[v |-> "v1"], [v |-> "v2"], None}

WrapperCall ==
    \E args \in ArgsStrings, func_result \in FuncResults :
        /\ Wrapper(<<"u">>, FuncName, L1DefaultTtl, L2DefaultTtl, args, KwargsString,
                   func_result)
        /\ UNCHANGED <<now, ticks, limiterVars, keyVars, gatewayVars,
                       derived, last_match, registrations, mfaVars, flightVars>>

\* a decorated coroutine called over time
DecoratorNext == WrapperCall \/ CacheTick

SpecDecorator == Init /\ [][DecoratorNext]_vars

IsWrapped(call) == "op" \in DOMAIN call /\ call.op = "wrapper"

\* C22: a decorated coroutine is memoized: whatever the first call returned, a
\* call with the same arguments that directly follows it, the first result
\* being within its TTLs, returns that result and does not execute the
\* coroutine again.
C22_DecoratorMemoizes ==
    [][(/\ IsWrapped(last_call) /\ IsWrapped(last_call')
        /\ last_call'.n = last_call.n + 1
        /\ last_call'.key = last_call.key
        /\ now' = now)
       => (~last_call'.executed /\ last_call'.result = last_call.result)]_vars

\* C23: InMemoryCache.get(key) returns the stored value if and only if the key
\* is present and now < expires_at, so that an entry read exactly at its expiry
\* instant is a miss.
C23_VisibleBeforeExpiry ==
    [][last_get' # last_get
       => ((last_get'.value # None)
             <=> (/\ last_get'.key \in DOMAIN l1_cache
                  /\ now < l1_cache[last_get'.key].expires_at))]_vars

\* the step is a record_attempt call for user u
Records(u) == failures'[u].calls = failures[u].calls + 1

\* C24: with max_attempts = K, a user with fewer than K failed attempts in a
\* row on record is not locked out and its next attempt is taken in; once the
\* K-th failure in a row is recorded the user is locked out, and every further
\* attempt is turned away and changes nothing, until lockout_duration has
\* elapsed since that failure, when the lockout is over; a success that is
\* recorded before the K-th failure sets the count to zero.
C24_LockoutAfterKFailures ==
    /\ [](\A u \in MfaUsers :
            /\ failures[u].streak < MaxAttempts => ~IsLockedOut(attempts, u, now)
            /\ failures[u].streak = MaxAttempts
                 => (IsLockedOut(attempts, u, now) <=> now < failures[u].at + LockoutDuration))
    /\ [][\A u \in MfaUsers :
            Records(u)
            => /\ (/\ failures[u].streak < MaxAttempts
                   /\ (failures[u].streak < MaxAttempts - 1 \/ last_record'.success))
                    => (last_record'.result.allowed /\ ~last_record'.result.locked)
               /\ (failures[u].streak = MaxAttempts - 1 /\ ~last_record'.success)
                    => (last_record'.result.locked /\ IsLockedOut(attempts', u, now'))
               /\ (failures[u].streak = MaxAttempts /\ now < failures[u].at + LockoutDuration)
                    => (/\ ~last_record'.result.allowed
                        /\ last_record'.result.locked
                        /\ attempts' = attempts)
               /\ (failures[u].streak < MaxAttempts /\ last_record'.success)
                    => attempts'[u].count = 0]_vars

\* a user that is locked out tried again, later and within the lockout, and was
\* turned away
C24_Witness ==
    \E u \in MfaUsers :
        /\ failures[u].streak = MaxAttempts
        /\ "user_id" \in DOMAIN last_record
        /\ last_record.user_id = u
        /\ last_record.at > failures[u].at
        /\ last_record.at < failures[u].at + LockoutDuration
        /\ last_record.was_locked
        /\ ~last_record.result.allowed

\* C25: every token bucket holds at least zero tokens and at most the burst
\* capacity of its caller's tier, in every reachable state, the clock never
\* going back: the refill stops at the capacity, and an admitted check takes a
\* token only from a bucket that holds one.
C25_TokensWithinCapacity ==
    \A c \in Clients : \A tier \in BucketTiers :
        (c \in DOMAIN token_buckets /\ tiers_used[c] = {tier})
        => /\ 0 <= token_buckets[c].tokens
           /\ token_buckets[c].tokens <= RATE_LIMIT_CONFIGS[tier].burst_size * TokenUnit

\* a bucket that an earlier check had drawn from was refilled up to the
\* capacity, and the check that refilled it took one token
C25_Witness ==
    \E c \in Clients : \E tier \in BucketTiers :
        /\ c \in DOMAIN token_buckets /\ tiers_used[c] = {tier}
        /\ Len(admitted[c]) >= 2
        /\ admitted[c][1] < token_buckets[c].last_refill
        /\ last_check[c].info.allowed
        /\ token_buckets[c].tokens = (RATE_LIMIT_CONFIGS[tier].burst_size - 1) * TokenUnit

\* C26: under the fixed window no caller has more admitted requests with
\* timestamps in one window than the per-hour limit, whatever the window, and
\* a rejected check reports as reset time the start of the next window: the
\* first multiple of 3600 after the time of the check.
C26_FixedWindowBound ==
    \A c \in Clients :
        /\ \A w \in 0..WindowId(now) :
              Cardinality({i \in DOMAIN admitted[c] : WindowId(admitted[c][i]) = w})
                  <= FixedPerHour
        /\ (last_check[c].tier = "fixed_window" /\ ~last_check[c].info.allowed)
              => /\ last_check[c].info.reset_at % HourWindow = 0
                 /\ last_check[c].info.reset_at > last_check[c].at
                 /\ last_check[c].info.reset_at - last_check[c].at <= HourWindow

\* a caller filled a window that is not the first one and was then rejected in it
C26_Witness ==
    \E c \in Clients :
        /\ last_check[c].tier = "fixed_window"
        /\ ~last_check[c].info.allowed
        /\ WindowId(last_check[c].at) >= 1
        /\ last_check[c].info.reset_at = (WindowId(last_check[c].at) + 1) * HourWindow
        /\ Cardinality(AdmittedInWindow(c, last_check[c].at)) = FixedPerHour

\* the caller has no limiter state: no timestamps and no bucket
NoPriorState(c) == c \notin DOMAIN request_history /\ c \notin DOMAIN token_buckets

\* C27: the first check of a caller without prior state is admitted, under
\* every tier: under a token-bucket tier its new bucket starts with burst_size
\* tokens, of which the check takes one, under a sliding-window tier its window
\* starts empty and holds just this check afterwards, and the unlimited tier
\* admits without state.
C27_FirstCheckAdmitted ==
    [][\A c \in Clients : \A tier \in Tiers :
          (NoPriorState(c) /\ CheckRateLimit(c, tier))
          => /\ last_check'[c].info.allowed
             /\ tier \in BucketTiers
                  => token_buckets'[c] =
                        [tokens |-> (RATE_LIMIT_CONFIGS[tier].burst_size - 1) * TokenUnit,
                         last_refill |-> now]
             /\ tier \in SlidingTiers => request_history'[c] = <<now>>
             /\ tier = "unlimited" => NoPriorState(c)']_vars

\* a caller was checked for the first time, under a token-bucket tier and not
\* at time zero, and holds the rest of a full bucket
C27_Witness ==
    \E c \in Clients : \E tier \in BucketTiers :
        /\ tiers_used[c] = {tier}
        /\ last_check[c].at > 0
        /\ last_check[c].info.allowed
        /\ admitted[c] = <<last_check[c].at>>
        /\ token_buckets[c].last_refill = last_check[c].at
        /\ token_buckets[c].tokens = (RATE_LIMIT_CONFIGS[tier].burst_size - 1) * TokenUnit

\* a layer returns a value for key: it holds the key, the entry is not past its
\* expiry, and the value is not None
L1Returns(key) ==
    key \in DOMAIN l1_cache /\ now <= l1_cache[key].expires_at /\ l1_cache[key].value # None
L2Returns(key) ==
    key \in DOMAIN l2_redis /\ now <= l2_redis[key].expires_at /\ l2_redis[key].value # None

\* the counters of record a plus one for each counter named in incremented
Incremented(a, incremented) ==
    [name \in DOMAIN a |-> IF name \in incremented THEN a[name] + 1 ELSE a[name]]

C29_InvalidateFrame ==
    [][\A ns \in Namespaces :
          InvalidateNamespace(ns)
          => /\ l1_cache' = EmptyDict
             /\ DOMAIN l2_redis' = {k \in DOMAIN l2_redis : ~StartsWith(k, ns \o <<":">>)}
             /\ \A k \in DOMAIN l2_redis' : l2_redis'[k] = l2_redis[k]]_vars

\* new is old with some of its oldest timestamps dropped, all of them outside
\* the horizon, and nothing added
OnlyPruned(old, new, OutOfHorizon(_)) ==
    /\ Len(new) <= Len(old)
    /\ new = SubSeq(old, Len(old) - Len(new) + 1, Len(old))
    /\ \A i \in 1..(Len(old) - Len(new)) : OutOfHorizon(old[i])

\* C30: a rejected check consumes no budget.  Under the sliding window and under
\* the fixed window it appends no timestamp: the caller's list changes only by
\* losing entries older than the hour, or of an earlier window.  Under the
\* token bucket it takes no token: the bucket holds what the refill gives,
\* min(tokens + elapsed * rate, burst_size).
C30_RejectionConsumesNothing ==
    [][\A c \in Clients :
          /\ \A tier \in SlidingTiers \cap StrategyTiers :
                (CheckRateLimit(c, tier) /\ ~last_check'[c].info.allowed)
                => OnlyPruned(request_history[c], request_history'[c],
                              LAMBDA ts : ts <= now - HourWindow)
          /\ (CheckFixedWindow(c, FixedConfig) /\ ~last_check'[c].info.allowed)
                => OnlyPruned(request_history[c], request_history'[c],
                              LAMBDA ts : WindowId(ts) < WindowId(now))
          /\ \A tier \in BucketTiers \cap StrategyTiers :
                (CheckRateLimit(c, tier) /\ ~last_check'[c].info.allowed)
                => token_buckets'[c].tokens =
                      Min(token_buckets[c].tokens
                            + (now - token_buckets[c].last_refill)
                                * RATE_LIMIT_CONFIGS[tier].requests_per_hour,
                          RATE_LIMIT_CONFIGS[tier].burst_size * TokenUnit)]_vars

\* a caller that had used up its fixed window was rejected at a later time of
\* the same window, and that time is not in its list
C30_Witness ==
    \E c \in Clients :
        /\ last_check[c].tier = "fixed_window"
        /\ ~last_check[c].info.allowed
        /\ Len(request_history[c]) = FixedPerHour
        /\ \A i \in 1..Len(request_history[c]) :
              /\ request_history[c][i] < last_check[c].at
              /\ WindowId(request_history[c][i]) = WindowId(last_check[c].at)

----------------------------------------------------------------------------
(* Claims about the frame of a request, overwrites, interleavings, staleness, *)
(* shared budgets and the injectivity of the keys                            *)

\* C31: a request that the gateway answers with 401, its key being missing,
\* unknown or revoked, makes no rate-limit check and changes nothing: no
\* caller's timestamps or bucket, and no key's usage_count or last_used.
C31_UnauthorizedChangesNothing ==
    [][\A h \in RequestHeaders, path \in RequestPaths, method \in RequestMethods :
          (ProcessRequest(h, path, method) /\ last_response'.status = 401)
          => /\ request_history' = request_history
             /\ token_buckets' = token_buckets
             /\ last_check' = last_check
             /\ api_keys' = api_keys]_vars

\* a key that had been used and had admissions on record was revoked, and the
\* request made with it afterwards was answered 401
C31_Witness ==
    /\ last_response # None
    /\ last_response.status = 401
    /\ last_response.detail = "Invalid or revoked API key"
    /\ \E k \in DOMAIN api_keys :
          /\ ~api_keys[k].is_active
          /\ api_keys[k].usage_count >= 1
          /\ ClientId(api_keys[k].user_id) \in DOMAIN request_history \cup DOMAIN token_buckets

\* C32: InMemoryCache.set of a key that is already present, the cache being at
\* capacity, only overwrites that key: the cache holds the same keys afterwards,
\* max_size of them, and every other entry is as it was.
C32_OverwriteEvictsNothing ==
    [][\A k \in L1Keys, value \in L1Values, ttl \in L1Ttls :
          (/\ L1Becomes(L1Set(L1, k, value, ttl, now))
           /\ last_set'.key = k
           /\ k \in DOMAIN l1_cache
           /\ Cardinality(DOMAIN l1_cache) = L1MaxSize)
          => /\ DOMAIN l1_cache' = DOMAIN l1_cache
             /\ \A x \in (DOMAIN l1_cache) \ {k} : l1_cache'[x] = l1_cache[x]]_vars

\* C33: once a delete of a key has completed and no set of the key is issued
\* afterwards, every get that starts after the completion returns a miss, even
\* when another get of the key was between its L2 read and its write into L1
\* while the delete ran.
C33_DeletedStaysMissing ==
    (flight.last # None /\ flight.last.after_delete) => flight.last.value = None

\* C34: when concurrent sets of one key have all completed, and nothing but
\* sets was called, L1 and L2 hold the same value for the key.
C34_TiersAgreeAfterSets ==
    (/\ \A t \in FlightTasks : tasks[t] = Idle
     /\ flight.issued = {"set"})
    => (/\ FlightKey \in DOMAIN l1_cache
        /\ FlightKey \in DOMAIN l2_redis
        /\ l1_cache[FlightKey].value = JsonLoads(l2_redis[FlightKey].value))

----------------------------------------------------------------------------
(* How long a value that was set once is served: MultiLayerCache with the
   dict of the simulation mode as L2 *)

StaleKey == GenerateCacheKey(<<"u">>, <<"1">>, <<>>)

\* the l1_ttl and l2_ttl arguments of set: the defaults, a short L2 ttl, and 0
StaleTtls == {[l1 |-> 100, l2 |-> 3600], [l1 |-> 100, l2 |-> 100], [l1 |-> 100, l2 |-> 0]}

\* the namespace of StaleKey, and one more whose sets fill L1 and evict from it
StaleNamespaces == {<<"u">>, <<"e">>}

MaxStaleTicks == 2

\* MultiLayerCache.set; the history variable last_set keeps the time and the ttl
\* arguments of the one set of StaleKey
StaleSet == \E ns \in StaleNamespaces, ttl \in StaleTtls :
    LET key == GenerateCacheKey(ns, <<"1">>, <<>>)
    IN  /\ key = StaleKey => last_set = None
        /\ key # StaleKey => ttl = [l1 |-> 100, l2 |-> 3600]
        /\ L1Becomes(L1Set(L1, key, [v |-> "v1"], ttl.l1, now))
        /\ l2_redis' = L2Set(l2_redis, key, [v |-> "v1"], ttl.l2, now)
        /\ written' = Put(written, key, [namespace |-> ns, value |-> [v |-> "v1"],
                                         invalidated |-> FALSE])
        /\ last_set' = IF key = StaleKey
                       THEN [key |-> key, at |-> now, l1_ttl |-> ttl.l1, l2_ttl |-> ttl.l2]
                       ELSE last_set
        /\ UNCHANGED <<now, ticks, limiterVars, keyVars, gatewayVars, auxVars, stats, last_get>>

\* MultiLayerCache.get
StaleGet == \E ns \in StaleNamespaces :
    /\ CacheGet(ns, <<"1">>, <<>>)
    /\ UNCHANGED <<now, ticks, limiterVars, keyVars, gatewayVars, auxVars>>

\* datetime.utcnow() moves on
StaleTick == \E d \in CacheDeltas :
    /\ ticks < MaxStaleTicks
    /\ now' = now + d
    /\ ticks' = ticks + 1
    /\ UNCHANGED <<limiterVars, keyVars, gatewayVars, cacheVars, auxVars>>

StaleNext == StaleSet \/ StaleGet \/ StaleTick

SpecStale == Init /\ [][StaleNext]_vars

Max(a, b) == IF a >= b THEN a ELSE b

\* the last time at which the value of the one set of StaleKey may be served
StaleUntil == last_set.at + Max(last_set.l1_ttl, last_set.l2_ttl + BackfillTtl)

\* this step is a get of StaleKey after StaleUntil
LateGet == /\ last_set # None
           /\ now > StaleUntil
           /\ CacheGet(<<"u">>, <<"1">>, <<>>)

\* C35: a value set at time T with l1_ttl and l2_ttl and not set again is not
\* returned by a get after T + max(l1_ttl, l2_ttl + 100)
C35_StalenessBound ==
    [][LateGet => last_get'.value = None]_vars

\* the same for a set whose two ttl arguments are positive
StalenessBound_PositiveTtls ==
    [][(LateGet /\ last_set.l1_ttl > 0 /\ last_set.l2_ttl > 0)
       => last_get'.value = None]_vars

\* a get of StaleKey after StaleUntil has missed although the value was served
\* from L1 by a back-fill before
StalenessBound_Witness ==
    /\ last_set # None
    /\ "at" \in DOMAIN last_set
    /\ last_set.l2_ttl > 0
    /\ now > StaleUntil
    /\ last_get # None
    /\ last_get.key = StaleKey
    /\ last_get.value = None
    /\ stats.l2_hits > 0

----------------------------------------------------------------------------
(* Claims about what a request that is not served has used up, the budget   *)
(* the keys of one user share, and the tier a request is admitted under     *)

\* the caller and the tier of the key a request carries
ClientOf(h) == ClientId(api_keys[ExtractApiKey(h)].user_id)
TierOf(h) == api_keys[ExtractApiKey(h)].tier

\* the step took one unit of the budget of the caller of h: its list is the
\* entries of the last hour with now appended, or its bucket, created full if it
\* was not there, holds the refilled tokens less one
TookOneUnit(h) ==
    /\ TierOf(h) \in SlidingTiers
          => request_history'[ClientOf(h)] =
                Append(SelectSeq(Get(request_history, ClientOf(h), <<>>),
                                 LAMBDA ts : ts > now - HourWindow), now)
    /\ TierOf(h) \in BucketTiers
          => token_buckets'[ClientOf(h)].tokens =
                Min((IF ClientOf(h) \in DOMAIN token_buckets
                     THEN token_buckets[ClientOf(h)].tokens
                             + (now - token_buckets[ClientOf(h)].last_refill)
                                 * RATE_LIMIT_CONFIGS[TierOf(h)].requests_per_hour
                     ELSE RATE_LIMIT_CONFIGS[TierOf(h)].burst_size * TokenUnit),
                    RATE_LIMIT_CONFIGS[TierOf(h)].burst_size * TokenUnit) - TokenUnit

\* C36: a request with a valid key that is admitted and matches no route (404)
\* has taken one unit of its caller's budget and has raised the key's
\* usage_count by one; a request that is rejected by the limiter (429) has
\* raised the key's usage_count by one as well.
C36_UnservedRequestsAreCounted ==
    [][\A h \in RequestHeaders, path \in RequestPaths, method \in RequestMethods :
          (ProcessRequest(h, path, method) /\ last_response'.status \in {404, 429})
          => /\ api_keys'[ExtractApiKey(h)].usage_count
                   = api_keys[ExtractApiKey(h)].usage_count + 1
             /\ last_response'.status = 404 => TookOneUnit(h)]_vars

\* the request of a limited key was answered 404, and the key's use and the
\* admission are on record
C36_Witness ==
    /\ last_response = NotFound
    /\ \E k \in DOMAIN api_keys :
          /\ api_keys[k].tier # "unlimited"
          /\ api_keys[k].usage_count >= 1
          /\ api_keys[k].last_used = now
          /\ \/ /\ ClientId(api_keys[k].user_id) \in DOMAIN request_history
                /\ Len(request_history[ClientId(api_keys[k].user_id)]) >= 1
             \/ /\ ClientId(api_keys[k].user_id) \in DOMAIN token_buckets
                /\ token_buckets[ClientId(api_keys[k].user_id)].tokens
                      < RATE_LIMIT_CONFIGS[api_keys[k].tier].burst_size * TokenUnit

\* the keys issued to a user
KeysOf(user_id) == {k \in DOMAIN api_keys : api_keys[k].user_id = user_id}

\* the usage_count of the keys of S, added up
RECURSIVE UsageOf(_)
UsageOf(S) ==
    IF S = {} THEN 0
    ELSE LET k == CHOOSE x \in S : TRUE
         IN  api_keys[k].usage_count + UsageOf(S \ {k})

\* C37: the limiter state is kept per user, not per key.  When the keys of a
\* user all carry one limited tier, the requests admitted through all of them
\* are on the one record of that user and together obey the tier's limits as
\* those of a single caller: requests_per_minute and requests_per_hour under the
\* sliding window, burst_size + requests_per_hour in an hour under the token
\* bucket.
C37_KeysOfOneUserShareBudget ==
    \A u \in Users : \A tier \in SlidingTiers \cup BucketTiers :
        (/\ \A k \in KeysOf(u) : api_keys[k].tier = tier
         /\ tiers_used[ClientId(u)] = {tier})
        => /\ Len(admitted[ClientId(u)]) <= UsageOf(KeysOf(u))
           /\ \A i \in 1..Len(admitted[ClientId(u)]) :
                 IF tier \in SlidingTiers
                 THEN /\ Cardinality(InWindow(admitted[ClientId(u)], i, MinuteWindow))
                            <= RATE_LIMIT_CONFIGS[tier].requests_per_minute
                      /\ Cardinality(InWindow(admitted[ClientId(u)], i, HourWindow))
                            <= RATE_LIMIT_CONFIGS[tier].requests_per_hour
                 ELSE Cardinality(InClosedWindow(admitted[ClientId(u)], i, HourWindow))
                            <= RATE_LIMIT_CONFIGS[tier].burst_size
                                 + RATE_LIMIT_CONFIGS[tier].requests_per_hour

\* two active keys of one user and tier were both used, neither more often
\* than the minute allows, and the request that came after the two of them had
\* used up the minute was rejected
C37_Witness ==
    \E k1, k2 \in DOMAIN api_keys :
        /\ k1 # k2
        /\ api_keys[k1].user_id = api_keys[k2].user_id
        /\ api_keys[k1].tier = "free" /\ api_keys[k2].tier = "free"
        /\ api_keys[k1].is_active /\ api_keys[k2].is_active
        /\ api_keys[k1].usage_count >= 1 /\ api_keys[k2].usage_count >= 1
        /\ api_keys[k1].usage_count <= FreePerMinute
        /\ api_keys[k2].usage_count <= FreePerMinute
        /\ Len(admitted[ClientId(api_keys[k1].user_id)]) = FreePerMinute
        /\ last_response # None
        /\ last_response.status = 429

----------------------------------------------------------------------------
(* Claim about the keys of different calls *)

\* the key of this derivation is not hashed: joined, it has at most 200 characters
Unhashed(d) ==
    Len(Join(<<":">>, SelectSeq(<<d.namespace, d.identifier,
                                  Join(<<"_">>, ParamStrings(SortedParams(d.params)))>>,
                                LAMBDA part : part # <<>>))) <= KeyHashThreshold

\* the keyword arguments as a dict
ParamDict(params) == {params[i] : i \in 1..Len(params)}

\* C38: two calls of _generate_cache_key whose keys are not hashed and that
\* differ in namespace, identifier or params never derive the same key.
C38_KeyDerivationInjective ==
    [][(/\ derived # None /\ derived' # None
        /\ Unhashed(derived) /\ Unhashed(derived')
        /\ derived'.key = derived.key)
       => /\ derived'.namespace = derived.namespace
          /\ derived'.identifier = derived.identifier
          /\ ParamDict(derived'.params) = ParamDict(derived.params)]_vars

====
